---- MODULE Spec2Model ----
(***************************************************************************)
(* State-machine model of the four puzzle solvers of the LinkedIn games    *)
(* bot: solveSudoku (Mini Sudoku), solveQueens, solveTango and solveZip.   *)
(* Every solver is modelled at the level of its recursion: the call stack  *)
(* is explicit, one action per program point of the recursive function.    *)
(***************************************************************************)
EXTENDS Integers, Sequences, FiniteSets, TLC

VARIABLES
  game,            \* which content script runs: "sudoku", "queens", "tango", "zip"
  pc,              \* "idle" (before the solver is called), "running", "done"
  input,           \* the parsed board handed to the solver (the caller's objects)
  before,          \* what those objects held when the board was parsed
  solution,        \* the working grid `solution` of solveSudoku / solveQueens
  stack,           \* the call stack of the recursive function, innermost frame last
  ret,             \* <<>>: no return pending; <<v>>: the callee just returned v
  queensPerRow,    \* solveQueens accumulators
  queensPerCol,
  queensPerRegion,
  visited,         \* solveZip: visited[r][c]
  path,            \* solveZip: the path array
  result,          \* what the solver returned (meaningful when pc = "done")
  solves,          \* how many times the solver has been started on this page
  page,            \* the document and the timers and observer init() set up
  button,          \* the solve button: disabled, textContent, 2000 ms timer pending
  previous,        \* what the solver returned the time before, on this page
  outcome          \* how the click handler ended: "none" (not yet), "nosolution",
                   \* "applied" (applySolution ran), "error" (the catch branch)

vars == <<game, pc, input, before, solution, stack, ret, queensPerRow, queensPerCol,
          queensPerRegion, visited, path, result, solves, previous, outcome,
          button, page>>

(***************************************************************************)
(* Shared encodings                                                        *)
(***************************************************************************)

\* JavaScript null (the "no solution" value); grids and returned paths are
\* never empty, so the empty tuple is distinct from every one of them.
NULL == <<>>

\* How many extra times the Solve button is clicked again once a run is done
\* (the board then parsed is the one the previous solution was applied to).
MaxResolves == 1

Top == stack[Len(stack)]
Pop == SubSeq(stack, 1, Len(stack) - 1)
SetTop(f) == [stack EXCEPT ![Len(stack)] = f]

\* CopyGrid with the bug of starting from a blank grid (the initialiser
\* the parsers use, Array(n).fill(0)) instead of copying the rows
CopyGridBlank(g) == [r \in DOMAIN g |-> [c \in DOMAIN g[r] |-> 0]]

\* grid.map((row) => [...row]): a copy with the same contents
CopyGrid(g) == [r \in DOMAIN g |-> [c \in DOMAIN g[r] |-> g[r][c]]]

SetCell(g, r, c, v) == [g EXCEPT ![r][c] = v]

\* CallerSees for a working grid made by [...grid]: the outer array is new
\* but its rows are the caller's rows, so every cell written shows there
CallerSeesSharedRows(inp, sol) == [inp EXCEPT !.grid = sol]

\* What the caller's objects hold once the solver has written its working
\* grid `sol`. The working grid is grid.map((row) => [...row]): new rows, so
\* a write to solution[r][c] reaches no array of the caller.
CallerSees(inp, sol) == inp

\* What `solution` holds once the guess was written into trySun / tryMoon,
\* which is solution.map((r) => [...r]): the guess is not written to solution.
TrySees(sol, try) == sol

\* The element of a one-element set. Sequential code is written as
\* Only({ f(x) : x \in {e} }) so that e is evaluated once, before f.
Only(S) == CHOOSE x \in S : TRUE

(***************************************************************************)
(* Mini Sudoku                                                             *)
(***************************************************************************)

\* bound on the checkForGame timer callbacks that are followed
MaxPolls == 3

\* bound on the times the page takes the solve button out of the document
MaxRemovals == 2

\* the page before init() has run: whether the address is the game's, whether
\* the board cells are in the document, how many solve buttons are in the
\* document, whether the checkForGame timer is pending, whether the
\* MutationObserver is observing and has records queued, and what the polling
\* chain has done so far
PageLoaded(url, cellsThere) ==
  [started |-> FALSE, onGamePage |-> url, cells |-> cellsThere, buttons |-> 0,
   timer |-> FALSE, observing |-> FALSE, queued |-> FALSE,
   polls |-> 0, pollAdded |-> FALSE, observerAdded |-> FALSE, removals |-> 0]

\* addSolveButton without the getElementById return
addSolveButtonUnchecked(pg) ==
  [pg EXCEPT !.buttons = @ + 1, !.queued = pg.observing]

\* addSolveButton: if (document.getElementById(id)) return; otherwise the
\* button is created and appended to document.body, which the observer records
addSolveButton(pg) ==
  IF pg.buttons > 0 THEN pg
  ELSE [pg EXCEPT !.buttons = @ + 1, !.queued = pg.observing]

\* the page of a game whose cells were there at the first poll: the button is
\* added, the polling chain is over and the observer has run
PageReady ==
  [started |-> TRUE, onGamePage |-> TRUE, cells |-> TRUE, buttons |-> 1,
   timer |-> FALSE, observing |-> TRUE, queued |-> FALSE,
   polls |-> 1, pollAdded |-> TRUE, observerAdded |-> FALSE, removals |-> 0]

\* button.textContent as addSolveButton sets it
ButtonLabel(g) ==
  CASE g = "sudoku" -> "Solve Sudoku"
    [] g = "queens" -> "Solve Queens"
    [] g = "tango"  -> "Solve Tango"
    [] g = "zip"    -> "Solve Zip"

\* the button as addSolveButton creates it, and as the handler restores it:
\* button.textContent = "Solve ..."; button.disabled = false;
ButtonAdded(g) == [disabled |-> FALSE, text |-> ButtonLabel(g), timer |-> FALSE]

\* ButtonClicked with button.disabled = true left out
ButtonClickedLeftEnabled(b) == [b EXCEPT !.text = "Solving..."]

\* the first statements of the click handler:
\* button.disabled = true; button.textContent = "Solving...";
ButtonClicked(b) == [b EXCEPT !.disabled = TRUE, !.text = "Solving..."]

\* the button when the synchronous part of the handler ends with outcome out:
\* restored on the no-solution return and in the catch branch, left disabled
\* while the handler awaits applySolution
ButtonAfterHandler(g, b, out) ==
  IF out \in {"nosolution", "error"} THEN ButtonAdded(g) ELSE b

\* the click handler on a page whose board cannot be parsed: the button is
\* disabled, the parser returns null, a message is shown and the button is
\* restored before the handler returns
ClickUnparsed ==
  /\ pc = "idle"
  /\ ~button.disabled
  /\ outcome = "none"
  /\ outcome' = "unparsed"
  /\ button' = ButtonAfterHandler(game, ButtonClicked(button), "nosolution")
  /\ UNCHANGED <<game, page, pc, input, before, solution, stack, ret, queensPerRow,
                 queensPerCol, queensPerRegion, visited, path, result, solves,
                 previous>>

\* await applySolution(...) is over: either it threw (catch branch: the
\* button is restored), or the handler shows "Solved!" (Sudoku: the label
\* again, when applySolution returned false) and starts the 2000 ms timer
ApplySolutionDone ==
  /\ pc = "done"
  /\ outcome = "applied"
  /\ button.text = "Solving..."
  /\ \E thrown \in BOOLEAN :
       \E success \in (IF game = "sudoku" THEN BOOLEAN ELSE {TRUE}) :
         IF thrown
         THEN /\ success
              /\ outcome' = "error"
              /\ button' = ButtonAdded(game)
         ELSE /\ outcome' = outcome
              /\ button' = [button EXCEPT
                              !.text = IF success THEN "Solved!"
                                       ELSE ButtonLabel(game),
                              !.timer = TRUE]
  /\ UNCHANGED <<game, page, pc, input, before, solution, stack, ret, queensPerRow,
                 queensPerCol, queensPerRegion, visited, path, result, solves,
                 previous>>

\* the setTimeout callback: button.textContent = "Solve ...";
\* button.disabled = false;
ButtonTimer ==
  /\ button.timer
  /\ button' = ButtonAdded(game)
  /\ UNCHANGED <<game, page, pc, input, before, solution, stack, ret, queensPerRow,
                 queensPerCol, queensPerRegion, visited, path, result, solves,
                 previous, outcome>>

GRID_SIZE == 6
BLOCK_ROWS == 2
BLOCK_COLS == 3

Idx == 0 .. GRID_SIZE - 1

\* isValid(grid, row, col, num): num occurs neither in the row, nor in the
\* column, nor in the 2x3 block of (row, col)
isValid(grid, row, col, num) ==
  LET blockStartRow == (row \div BLOCK_ROWS) * BLOCK_ROWS
      blockStartCol == (col \div BLOCK_COLS) * BLOCK_COLS
  IN  /\ \A c \in Idx : grid[row][c] # num
      /\ \A r \in Idx : grid[r][col] # num
      /\ \A r \in blockStartRow .. blockStartRow + BLOCK_ROWS - 1 :
           \A c \in blockStartCol .. blockStartCol + BLOCK_COLS - 1 :
             grid[r][c] # num

\* the two nested for loops of solve(): the first cell, in row-major order,
\* that holds 0; <<>> when there is none
SudokuEmptyCells(g) == { k \in 0 .. GRID_SIZE * GRID_SIZE - 1 :
                           g[k \div GRID_SIZE][k % GRID_SIZE] = 0 }

SudokuFirstEmpty(g) ==
  IF SudokuEmptyCells(g) = {} THEN <<>>
  ELSE LET first == CHOOSE n \in SudokuEmptyCells(g) :
                      \A j \in SudokuEmptyCells(g) : n <= j
       IN  <<first \div GRID_SIZE, first % GRID_SIZE>>

\* the first value the for loop over num tries
SudokuFirstNum == 1

\* SudokuNextNum with a wrong step: only every other value is tried
SudokuNextNumSkip(num) == num + 2

\* the value the for loop tries after num
SudokuNextNum(num) == num + 1

\* the loop condition num <= GRID_SIZE
SudokuNumInRange(num) == num >= 1 /\ num <= GRID_SIZE

\* the click handler after solveSudoku returned: if (!solution) reports that
\* no solution was found and returns; otherwise applySolution is called
SudokuHandler(sol) == IF sol = NULL THEN "nosolution" ELSE "applied"

\* if (solve()) return solution; return null;
SudokuResult(ok, sol) == IF ok THEN sol ELSE NULL

\* A valid solved 6x6 board; the boards of the model are cut out of it.
SudokuBase ==
  LET rows == << <<1, 2, 3, 4, 5, 6>>,
                 <<4, 5, 6, 1, 2, 3>>,
                 <<2, 3, 1, 5, 6, 4>>,
                 <<5, 6, 4, 2, 3, 1>>,
                 <<3, 1, 2, 6, 4, 5>>,
                 <<6, 4, 5, 3, 1, 2>> >>
  IN  [r \in Idx |-> [c \in Idx |-> rows[r + 1][c + 1]]]

\* Cells the parser may find empty, in the order in which the bound adds them.
\* The first four form a rectangle with two completions (1 4 / 4 1).
SudokuHoleOrder == << <<0, 0>>, <<0, 3>>, <<1, 0>>, <<1, 3>>, <<5, 5>>,
                      <<2, 2>>, <<3, 4>>, <<4, 1>> >>

MaxHoles == 5

SudokuHoleCells ==
  { SudokuHoleOrder[i] : i \in 1 .. (IF MaxHoles < Len(SudokuHoleOrder)
                                      THEN MaxHoles ELSE Len(SudokuHoleOrder)) }

\* Cells whose parsed value differs from SudokuBase: <<row, col, value>>.
\* <<0, 1, 1>> puts a second 1 into row 0, <<3, 4, 6>> a second 6 into row 3;
\* <<1, 3, 4>> keeps the board valid when <<1, 3>> is not a hole: it selects
\* the other completion of the rectangle, so that the first value tried at
\* <<0, 0>> fails and is undone.
SudokuOverwrites == { <<>>, <<0, 1, 1>>, <<3, 4, 6>>, <<1, 3, 4>> }

SudokuBoard(holes, ow) ==
  [r \in Idx |-> [c \in Idx |->
     IF <<r, c>> \in holes THEN 0
     ELSE IF ow # <<>> /\ ow[1] = r /\ ow[2] = c THEN ow[3]
     ELSE SudokuBase[r][c]]]

SudokuInputs ==
  { [grid |-> SudokuBoard(holes, ow)] :
      holes \in SUBSET SudokuHoleCells, ow \in SudokuOverwrites }

SudokuInit ==
  /\ game = "sudoku"
  /\ pc = "idle"
  /\ input \in SudokuInputs
  /\ before = input
  /\ solution = NULL
  /\ stack = <<>>
  /\ ret = <<>>
  /\ queensPerRow = <<>>
  /\ queensPerCol = <<>>
  /\ queensPerRegion = <<>>
  /\ visited = <<>>
  /\ path = <<>>
  /\ result = NULL
  /\ solves = 0
  /\ outcome = "none"
  /\ previous = NULL
  /\ button = ButtonAdded(game)
  /\ page = PageReady

\* solveSudoku(grid, prefilled): copy the grid and call solve()
solveSudoku ==
  /\ game = "sudoku"
  /\ pc = "idle"
  /\ ~button.disabled
  /\ button' = ButtonClicked(button)
  /\ outcome' = "none"
  /\ pc' = "running"
  /\ solution' = CopyGrid(input.grid)
  /\ stack' = << [at |-> "entry", row |-> 0, col |-> 0, num |-> 0] >>
  /\ ret' = <<>>
  /\ solves' = solves + 1
  /\ UNCHANGED <<game, page, previous, input, before, queensPerRow, queensPerCol, queensPerRegion,
                 visited, path, result>>

\* solve(): find the next empty cell; none left: return true
SudokuSolveEntry ==
  /\ game = "sudoku"
  /\ pc = "running"
  /\ stack # <<>>
  /\ Top.at = "entry"
  /\ LET cell == SudokuFirstEmpty(solution)
     IN  IF cell = <<>>
         THEN /\ stack' = Pop
              /\ ret' = <<TRUE>>
         ELSE /\ stack' = SetTop([at |-> "loop", row |-> cell[1],
                                  col |-> cell[2], num |-> SudokuFirstNum])
              /\ ret' = <<>>
  /\ UNCHANGED <<game, page, button, previous, outcome, pc, input, before, solution, queensPerRow, queensPerCol,
                 queensPerRegion, visited, path, result, solves>>

\* one iteration of for (num ...): place num if it is valid and recurse;
\* the loop running out is "return false"
SudokuTryNum ==
  /\ game = "sudoku"
  /\ pc = "running"
  /\ stack # <<>>
  /\ Top.at = "loop"
  /\ IF ~SudokuNumInRange(Top.num)
     THEN /\ stack' = Pop
          /\ ret' = <<FALSE>>
          /\ UNCHANGED solution
     ELSE IF isValid(solution, Top.row, Top.col, Top.num)
     THEN /\ solution' = SetCell(solution, Top.row, Top.col, Top.num)
          /\ stack' = Append(SetTop([Top EXCEPT !.at = "wait"]),
                             [at |-> "entry", row |-> 0, col |-> 0, num |-> 0])
          /\ ret' = <<>>
     ELSE /\ stack' = SetTop([Top EXCEPT !.num = SudokuNextNum(Top.num)])
          /\ ret' = <<>>
          /\ UNCHANGED solution
  /\ input' = CallerSees(input, solution')
  /\ UNCHANGED <<game, page, button, previous, outcome, pc, before, queensPerRow, queensPerCol, queensPerRegion,
                 visited, path, result, solves>>

\* if (solve()) return true; solution[row][col] = 0; (next num)
SudokuAfterCall ==
  /\ game = "sudoku"
  /\ pc = "running"
  /\ stack # <<>>
  /\ Top.at = "wait"
  /\ ret # <<>>
  /\ IF ret[1]
     THEN /\ stack' = Pop
          /\ UNCHANGED <<ret, solution>>
     ELSE /\ solution' = SetCell(solution, Top.row, Top.col, 0)
          /\ stack' = SetTop([Top EXCEPT !.at = "loop",
                                         !.num = SudokuNextNum(Top.num)])
          /\ ret' = <<>>
  /\ input' = CallerSees(input, solution')
  /\ UNCHANGED <<game, page, button, previous, outcome, pc, before, queensPerRow, queensPerCol, queensPerRegion,
                 visited, path, result, solves>>

\* if (solve()) { return solution; } return null;
SudokuFinish ==
  /\ game = "sudoku"
  /\ pc = "running"
  /\ stack = <<>>
  /\ ret # <<>>
  /\ result' = SudokuResult(ret[1], solution)
  /\ pc' = "done"
  /\ outcome' = SudokuHandler(result')
  /\ button' = ButtonAfterHandler(game, button, outcome')
  /\ ret' = <<>>
  /\ UNCHANGED <<game, page, previous, input, before, solution, stack, queensPerRow, queensPerCol,
                 queensPerRegion, visited, path, solves>>

\* The Solve button is clicked again after the solution was applied to the
\* page: the board parsed now is the grid the solver returned.
SudokuSolveAgain ==
  /\ game = "sudoku"
  /\ pc = "done"
  /\ ~button.disabled
  /\ result # NULL
  /\ solves <= MaxResolves
  /\ input' = [grid |-> result]
  /\ before' = input'
  /\ pc' = "idle"
  /\ outcome' = "none"
  /\ UNCHANGED button
  /\ previous' = result
  /\ result' = NULL
  /\ solution' = NULL
  /\ UNCHANGED <<game, page, stack, ret, queensPerRow, queensPerCol, queensPerRegion,
                 visited, path, solves>>

SudokuNext ==
  \/ solveSudoku
  \/ SudokuSolveEntry
  \/ SudokuTryNum
  \/ SudokuAfterCall
  \/ SudokuFinish
  \/ SudokuSolveAgain
  \/ ClickUnparsed
  \/ ApplySolutionDone
  \/ ButtonTimer

SpecSudoku == SudokuInit /\ [][SudokuNext]_vars

(***************************************************************************)
(* Queens                                                                  *)
(***************************************************************************)

EMPTY == 0
QUEEN == 1
CROSS == 2

QIdx(size) == 0 .. size - 1

\* isValidPlacement(solution, regions, row, col, size)
isValidPlacement(sol, regions, row, col, size) ==
  LET regionId == regions[row][col]
  IN  /\ \A c \in QIdx(size) : ~(c # col /\ sol[row][c] = QUEEN)
      /\ \A r \in QIdx(size) : ~(r # row /\ sol[r][col] = QUEEN)
      /\ \A r \in QIdx(size) : \A c \in QIdx(size) :
           ~((r # row \/ c # col) /\ regions[r][c] = regionId
             /\ sol[r][c] = QUEEN)
      /\ \A dr \in -1 .. 1 : \A dc \in -1 .. 1 :
           (dr = 0 /\ dc = 0) \/
           LET nr == row + dr
               nc == col + dc
           IN  ~(nr >= 0 /\ nr < size /\ nc >= 0 /\ nc < size
                 /\ sol[nr][nc] = QUEEN)

\* the counting loop that fills queensPerRow / queensPerCol / queensPerRegion
\* (a region absent from the Map reads as 0: `get(regionId) || 0`)
QueensRegionIds(regions, size) ==
  { regions[r][c] : r \in QIdx(size), c \in QIdx(size) }

CountQueensRow(sol, size) ==
  [r \in QIdx(size) |-> Cardinality({ c \in QIdx(size) : sol[r][c] = QUEEN })]

CountQueensCol(sol, size) ==
  [c \in QIdx(size) |-> Cardinality({ r \in QIdx(size) : sol[r][c] = QUEEN })]

\* queensPerRegion is a Map: a region has a key once a queen was counted in it
CountQueensRegion(sol, regions, size) ==
  [id \in { regions[rc[1]][rc[2]] :
              rc \in { q \in QIdx(size) \X QIdx(size) : sol[q[1]][q[2]] = QUEEN } } |->
     Cardinality({ rc \in QIdx(size) \X QIdx(size) :
                     regions[rc[1]][rc[2]] = id /\ sol[rc[1]][rc[2]] = QUEEN })]

\* queensPerRegion.get(regionId) || 0
QueensRegionGet(perRegion, regionId) ==
  IF regionId \in DOMAIN perRegion THEN perRegion[regionId] ELSE 0

\* queensPerRegion.set(regionId, v)
QueensRegionSet(perRegion, regionId, v) ==
  [id \in DOMAIN perRegion \cup {regionId} |->
     IF id = regionId THEN v ELSE perRegion[id]]

\* QueensUndoCol with the decrement left out
QueensUndoColKept(perCol, col) == perCol

\* queensPerCol[col]--;
QueensUndoCol(perCol, col) == [perCol EXCEPT ![col] = @ - 1]

\* the check made when row >= size: every column holds exactly one queen
QueensColumnsComplete(perCol, size) == \A c \in QIdx(size) : perCol[c] = 1

\* QueensRowDone with the skip of rows that hold a queen forgotten
QueensRowDoneNever(perRow, row) == FALSE

\* if (queensPerRow[row] === 1) return solve(row + 1);
QueensRowDone(perRow, row) == perRow[row] = 1

\* QueensCandidate without the test that the cell is EMPTY
QueensCandidateAnyCell(sol, regions, perCol, perRegion, row, col, size) ==
  /\ ~(QueensRegionGet(perRegion, regions[row][col]) >= 1)
  /\ ~(perCol[col] >= 1)
  /\ isValidPlacement(sol, regions, row, col, size)

\* the four `continue` tests of the column loop, negated
QueensCandidate(sol, regions, perCol, perRegion, row, col, size) ==
  /\ sol[row][col] = EMPTY
  /\ ~(QueensRegionGet(perRegion, regions[row][col]) >= 1)
  /\ ~(perCol[col] >= 1)
  /\ isValidPlacement(sol, regions, row, col, size)

\* the click handler after solveQueens returned: if (!solution) reports that
\* no solution was found and returns; otherwise applySolution is called
QueensHandler(sol) == IF sol = NULL THEN "nosolution" ELSE "applied"

\* Region maps of the model, for every size: one region per column, one per
\* row, and nested L-shaped regions (region k is what is left of row k and
\* column k once regions 0..k-1 are taken).
QueensRegionMaps(size) ==
  { [r \in QIdx(size) |-> [c \in QIdx(size) |-> c]],
    [r \in QIdx(size) |-> [c \in QIdx(size) |-> r]],
    [r \in QIdx(size) |-> [c \in QIdx(size) |-> IF r < c THEN r ELSE c]] }

MaxQueensSize == 4

\* Cells the parser may find marked (QUEEN or CROSS) when Solve is clicked,
\* in the order in which the bound adds them.
QueensMarkOrder == << <<0, 1>>, <<2, 0>>, <<1, 1>>, <<2, 2>>, <<3, 2>>, <<0, 0>> >>

MaxQueensMarks == 4

QueensMarkCells(size) ==
  { QueensMarkOrder[i] :
      i \in { j \in 1 .. Len(QueensMarkOrder) :
                /\ j <= MaxQueensMarks
                /\ QueensMarkOrder[j][1] < size
                /\ QueensMarkOrder[j][2] < size } }

QueensGrids(size) ==
  { [r \in QIdx(size) |-> [c \in QIdx(size) |->
       IF <<r, c>> \in QueensMarkCells(size) THEN m[<<r, c>>] ELSE EMPTY]] :
      m \in [QueensMarkCells(size) -> {EMPTY, QUEEN, CROSS}] }

QueensInputs ==
  UNION { { [grid |-> g, regions |-> reg, size |-> size] :
              g \in QueensGrids(size), reg \in QueensRegionMaps(size) } :
          size \in 1 .. MaxQueensSize }

QueensInit ==
  /\ game = "queens"
  /\ pc = "idle"
  /\ input \in QueensInputs
  /\ before = input
  /\ solution = NULL
  /\ stack = <<>>
  /\ ret = <<>>
  /\ queensPerRow = <<>>
  /\ queensPerCol = <<>>
  /\ queensPerRegion = <<>>
  /\ visited = <<>>
  /\ path = <<>>
  /\ result = NULL
  /\ solves = 0
  /\ outcome = "none"
  /\ previous = NULL
  /\ button = ButtonAdded(game)
  /\ page = PageReady

\* solveQueens(grid, regions, size): copy the grid, count the queens already
\* on it, call solve(0)
\* the locals of a call solve(row); saved records what the working grid and
\* the accumulators held just before the latest candidate of the call was placed
QueensFrame(row) == [at |-> "entry", row |-> row, col |-> 0, saved |-> NULL]

\* the working grid and the accumulators as they are now
QueensSaved ==
  [solution |-> solution, queensPerRow |-> queensPerRow,
   queensPerCol |-> queensPerCol, queensPerRegion |-> queensPerRegion]

solveQueens ==
  /\ game = "queens"
  /\ pc = "idle"
  /\ ~button.disabled
  /\ button' = ButtonClicked(button)
  /\ outcome' = "none"
  /\ pc' = "running"
  /\ solution' = CopyGrid(input.grid)
  /\ queensPerRow' = CountQueensRow(solution', input.size)
  /\ queensPerCol' = CountQueensCol(solution', input.size)
  /\ queensPerRegion' = CountQueensRegion(solution', input.regions, input.size)
  /\ stack' = << QueensFrame(0) >>
  /\ ret' = <<>>
  /\ solves' = solves + 1
  /\ UNCHANGED <<game, page, previous, input, before, visited, path, result>>

\* solve(row), up to the column loop
QueensSolveEntry ==
  /\ game = "queens"
  /\ pc = "running"
  /\ stack # <<>>
  /\ Top.at = "entry"
  /\ IF Top.row >= input.size
     THEN /\ stack' = Pop
          /\ ret' = <<QueensColumnsComplete(queensPerCol, input.size)>>
     ELSE IF QueensRowDone(queensPerRow, Top.row)
     THEN /\ stack' = Append(SetTop([Top EXCEPT !.at = "skip"]),
                             QueensFrame(Top.row + 1))
          /\ ret' = <<>>
     ELSE /\ stack' = SetTop([Top EXCEPT !.at = "loop", !.col = 0])
          /\ ret' = <<>>
  /\ UNCHANGED <<game, page, button, previous, outcome, pc, input, before, solution, queensPerRow, queensPerCol,
                 queensPerRegion, visited, path, result, solves>>

\* return solve(row + 1); of a row that already holds its queen
QueensSkipReturn ==
  /\ game = "queens"
  /\ pc = "running"
  /\ stack # <<>>
  /\ Top.at = "skip"
  /\ ret # <<>>
  /\ stack' = Pop
  /\ UNCHANGED <<game, page, button, previous, outcome, pc, input, before, solution, ret, queensPerRow, queensPerCol,
                 queensPerRegion, visited, path, result, solves>>

\* one iteration of for (col ...): place a queen on a candidate cell, update
\* the accumulators and recurse; the loop running out is "return false"
QueensTryCol ==
  /\ game = "queens"
  /\ pc = "running"
  /\ stack # <<>>
  /\ Top.at = "loop"
  /\ IF Top.col >= input.size
     THEN /\ stack' = Pop
          /\ ret' = <<FALSE>>
          /\ UNCHANGED <<solution, queensPerRow, queensPerCol, queensPerRegion>>
     ELSE IF QueensCandidate(solution, input.regions, queensPerCol,
                             queensPerRegion, Top.row, Top.col, input.size)
     THEN /\ solution' = SetCell(solution, Top.row, Top.col, QUEEN)
          /\ queensPerRow' = [queensPerRow EXCEPT ![Top.row] = @ + 1]
          /\ queensPerCol' = [queensPerCol EXCEPT ![Top.col] = @ + 1]
          /\ queensPerRegion' =
               QueensRegionSet(queensPerRegion, input.regions[Top.row][Top.col],
                               QueensRegionGet(queensPerRegion,
                                               input.regions[Top.row][Top.col]) + 1)
          /\ stack' = Append(SetTop([Top EXCEPT !.at = "wait",
                                               !.saved = QueensSaved]),
                             QueensFrame(Top.row + 1))
          /\ ret' = <<>>
     ELSE /\ stack' = SetTop([Top EXCEPT !.col = @ + 1])
          /\ ret' = <<>>
          /\ UNCHANGED <<solution, queensPerRow, queensPerCol, queensPerRegion>>
  /\ input' = CallerSees(input, solution')
  /\ UNCHANGED <<game, page, button, previous, outcome, pc, before, visited, path, result, solves>>

\* if (solve(row + 1)) return true; otherwise take the queen back
QueensAfterCall ==
  /\ game = "queens"
  /\ pc = "running"
  /\ stack # <<>>
  /\ Top.at = "wait"
  /\ ret # <<>>
  /\ IF ret[1]
     THEN /\ stack' = Pop
          /\ UNCHANGED <<ret, solution, queensPerRow, queensPerCol,
                         queensPerRegion>>
     ELSE /\ solution' = SetCell(solution, Top.row, Top.col, EMPTY)
          /\ queensPerRow' = [queensPerRow EXCEPT ![Top.row] = @ - 1]
          /\ queensPerCol' = QueensUndoCol(queensPerCol, Top.col)
          /\ queensPerRegion' =
               QueensRegionSet(queensPerRegion, input.regions[Top.row][Top.col],
                               queensPerRegion[input.regions[Top.row][Top.col]] - 1)
          /\ stack' = SetTop([Top EXCEPT !.at = "loop", !.col = @ + 1])
          /\ ret' = <<>>
  /\ input' = CallerSees(input, solution')
  /\ UNCHANGED <<game, page, button, previous, outcome, pc, before, visited, path, result, solves>>

\* if (solve(0)) { return solution; } return null;
QueensFinish ==
  /\ game = "queens"
  /\ pc = "running"
  /\ stack = <<>>
  /\ ret # <<>>
  /\ result' = (IF ret[1] THEN solution ELSE NULL)
  /\ pc' = "done"
  /\ outcome' = QueensHandler(result')
  /\ button' = ButtonAfterHandler(game, button, outcome')
  /\ ret' = <<>>
  /\ UNCHANGED <<game, page, previous, input, before, solution, stack, queensPerRow, queensPerCol,
                 queensPerRegion, visited, path, solves>>

\* Solve is clicked again on the board the returned grid was applied to
QueensSolveAgain ==
  /\ game = "queens"
  /\ pc = "done"
  /\ ~button.disabled
  /\ result # NULL
  /\ solves <= MaxResolves
  /\ input' = [input EXCEPT !.grid = result]
  /\ before' = input'
  /\ pc' = "idle"
  /\ outcome' = "none"
  /\ UNCHANGED button
  /\ previous' = result
  /\ result' = NULL
  /\ solution' = NULL
  /\ queensPerRow' = <<>>
  /\ queensPerCol' = <<>>
  /\ queensPerRegion' = <<>>
  /\ UNCHANGED <<game, page, stack, ret, visited, path, solves>>

QueensNext ==
  \/ solveQueens
  \/ QueensSolveEntry
  \/ QueensSkipReturn
  \/ QueensTryCol
  \/ QueensAfterCall
  \/ QueensFinish
  \/ QueensSolveAgain
  \/ ClickUnparsed
  \/ ApplySolutionDone
  \/ ButtonTimer

SpecQueens == QueensInit /\ [][QueensNext]_vars

(***************************************************************************)
(* Tango                                                                   *)
(***************************************************************************)

SUN == 1
MOON == 2
EQUAL == "equal"
OPPOSITE == "opposite"
maxIterations == 1000

\* TangoOther giving back the symbol it was handed
TangoOtherSame(v) == v

\* v === SUN ? MOON : SUN
TangoOther(v) == IF v = SUN THEN MOON ELSE SUN

\* Propagation works on a pair [g: the grid `solution`, ch: the flag `changed`].

\* body of `for (const c of constraints)`
TangoConstraintStep(st, c) ==
  LET v1 == st.g[c.row1][c.col1]
      v2 == st.g[c.row2][c.col2]
  IN  IF c.type = EQUAL
      THEN IF v1 # EMPTY /\ v2 = EMPTY
           THEN [g |-> SetCell(st.g, c.row2, c.col2, v1), ch |-> TRUE]
           ELSE IF v2 # EMPTY /\ v1 = EMPTY
           THEN [g |-> SetCell(st.g, c.row1, c.col1, v2), ch |-> TRUE]
           ELSE st
      ELSE IF c.type = OPPOSITE
      THEN IF v1 # EMPTY /\ v2 = EMPTY
           THEN [g |-> SetCell(st.g, c.row2, c.col2, TangoOther(v1)), ch |-> TRUE]
           ELSE IF v2 # EMPTY /\ v1 = EMPTY
           THEN [g |-> SetCell(st.g, c.row1, c.col1, TangoOther(v2)), ch |-> TRUE]
           ELSE st
      ELSE st

RECURSIVE TangoConstraintsFrom(_, _, _)
TangoConstraintsFrom(st, constraints, i) ==
  IF i > Len(constraints) THEN st
  ELSE Only({ TangoConstraintsFrom(nx, constraints, i + 1) :
                nx \in {TangoConstraintStep(st, constraints[i])} })

\* "Apply explicit constraints (= and x)"
TangoApplyConstraints(st, constraints) == TangoConstraintsFrom(st, constraints, 1)

\* The six patterns tested for an empty cell, in the order of the code (XX_,
\* _XX, X_X in the row, then in the column): the cell the written value is
\* the opposite of, or <<>> when no pattern matches.
TangoTripleSource(g, row, col) ==
  IF col >= 2 /\ g[row][col - 1] # EMPTY /\ g[row][col - 1] = g[row][col - 2]
  THEN <<row, col - 1>>
  ELSE IF col <= GRID_SIZE - 3 /\ g[row][col + 1] # EMPTY
          /\ g[row][col + 1] = g[row][col + 2]
  THEN <<row, col + 1>>
  ELSE IF col >= 1 /\ col <= GRID_SIZE - 2 /\ g[row][col - 1] # EMPTY
          /\ g[row][col - 1] = g[row][col + 1]
  THEN <<row, col - 1>>
  ELSE IF row >= 2 /\ g[row - 1][col] # EMPTY /\ g[row - 1][col] = g[row - 2][col]
  THEN <<row - 1, col>>
  ELSE IF row <= GRID_SIZE - 3 /\ g[row + 1][col] # EMPTY
          /\ g[row + 1][col] = g[row + 2][col]
  THEN <<row + 1, col>>
  ELSE IF row >= 1 /\ row <= GRID_SIZE - 2 /\ g[row - 1][col] # EMPTY
          /\ g[row - 1][col] = g[row + 1][col]
  THEN <<row - 1, col>>
  ELSE <<>>

\* TangoTripleStep with `changed = true` left out
TangoTripleStepUnflagged(st, k) ==
  LET row == k \div GRID_SIZE
      col == k % GRID_SIZE
      src == TangoTripleSource(st.g, row, col)
  IN  IF st.g[row][col] # EMPTY \/ src = <<>>
      THEN st
      ELSE [g |-> SetCell(st.g, row, col, TangoOther(st.g[src[1]][src[2]])),
            ch |-> st.ch]

\* body of the two nested loops of "Apply no-triple rule" for cell k
TangoTripleStep(st, k) ==
  LET row == k \div GRID_SIZE
      col == k % GRID_SIZE
      src == TangoTripleSource(st.g, row, col)
  IN  IF st.g[row][col] # EMPTY \/ src = <<>>
      THEN st
      ELSE [g |-> SetCell(st.g, row, col, TangoOther(st.g[src[1]][src[2]])),
            ch |-> TRUE]

RECURSIVE TangoTripleFrom(_, _)
TangoTripleFrom(st, k) ==
  IF k >= GRID_SIZE * GRID_SIZE THEN st
  ELSE Only({ TangoTripleFrom(nx, k + 1) : nx \in {TangoTripleStep(st, k)} })

\* "Apply no-triple rule"
TangoApplyNoTriple(st) == TangoTripleFrom(st, 0)

TangoCountRow(g, i, v) == Cardinality({ j \in Idx : g[i][j] = v })
TangoCountCol(g, i, v) == Cardinality({ j \in Idx : g[j][i] = v })

\* TangoFillRow writing every cell of the row, empty or not
TangoFillRowAll(st, i, v) ==
  [g  |-> [st.g EXCEPT ![i] = [j \in Idx |-> v]],
   ch |-> st.ch \/ \E j \in Idx : st.g[i][j] = EMPTY]

\* for (j ...) if (solution[i][j] === EMPTY) { solution[i][j] = v; changed = true; }
TangoFillRow(st, i, v) ==
  [g  |-> [st.g EXCEPT ![i] = [j \in Idx |-> IF st.g[i][j] = EMPTY THEN v
                                             ELSE st.g[i][j]]],
   ch |-> st.ch \/ \E j \in Idx : st.g[i][j] = EMPTY]

\* TangoFillCol setting `changed` whether or not a cell was filled
TangoFillColAlwaysFlagged(st, i, v) ==
  [g  |-> [r \in Idx |-> [c \in Idx |->
             IF c = i /\ st.g[r][c] = EMPTY THEN v ELSE st.g[r][c]]],
   ch |-> TRUE]

TangoFillCol(st, i, v) ==
  [g  |-> [r \in Idx |-> [c \in Idx |->
             IF c = i /\ st.g[r][c] = EMPTY THEN v ELSE st.g[r][c]]],
   ch |-> st.ch \/ \E j \in Idx : st.g[j][i] = EMPTY]

\* "Check row" of "Leftover cells"
TangoLeftoverRow(st, i) ==
  IF TangoCountRow(st.g, i, SUN) * 2 = GRID_SIZE THEN TangoFillRow(st, i, MOON)
  ELSE IF TangoCountRow(st.g, i, MOON) * 2 = GRID_SIZE THEN TangoFillRow(st, i, SUN)
  ELSE st

\* "Check column" of "Leftover cells"
TangoLeftoverCol(st, i) ==
  IF TangoCountCol(st.g, i, SUN) * 2 = GRID_SIZE THEN TangoFillCol(st, i, MOON)
  ELSE IF TangoCountCol(st.g, i, MOON) * 2 = GRID_SIZE THEN TangoFillCol(st, i, SUN)
  ELSE st

RECURSIVE TangoLeftoverFrom(_, _)
TangoLeftoverFrom(st, i) ==
  IF i >= GRID_SIZE THEN st
  ELSE Only({ TangoLeftoverFrom(nx, i + 1) :
                nx \in { TangoLeftoverCol(afterRow, i) :
                           afterRow \in {TangoLeftoverRow(st, i)} } })

\* "Leftover cells"
TangoApplyLeftover(st) == TangoLeftoverFrom(st, 0)

\* one iteration of the while loop, started with changed = false
TangoPassBody(g, constraints) ==
  Only({ TangoApplyLeftover(s2) :
           s2 \in { TangoApplyNoTriple(s1) :
                      s1 \in {TangoApplyConstraints([g |-> g, ch |-> FALSE],
                                                    constraints)} } })

\* isSolved with the scan stopping after the first row
isSolvedFirstRow(g) == \A col \in Idx : g[0][col] # EMPTY

\* isSolved(grid)
isSolved(g) == \A row \in Idx : \A col \in Idx : g[row][col] # EMPTY

\* isValid(grid, constraints) of tango.js
isValidTango(g, constraints) ==
  /\ \A i \in 1 .. Len(constraints) :
       LET c == constraints[i]
           v1 == g[c.row1][c.col1]
           v2 == g[c.row2][c.col2]
       IN  (v1 # EMPTY /\ v2 # EMPTY) =>
             /\ ~(c.type = EQUAL /\ v1 # v2)
             /\ ~(c.type = OPPOSITE /\ v1 = v2)
  /\ \A row \in Idx : \A col \in 0 .. GRID_SIZE - 3 :
       ~(g[row][col] # EMPTY /\ g[row][col] = g[row][col + 1]
         /\ g[row][col] = g[row][col + 2])
  /\ \A col \in Idx : \A row \in 0 .. GRID_SIZE - 3 :
       ~(g[row][col] # EMPTY /\ g[row][col] = g[row + 1][col]
         /\ g[row][col] = g[row + 2][col])
  /\ \A i \in Idx :
       /\ ~(TangoCountRow(g, i, SUN) * 2 > GRID_SIZE
            \/ TangoCountRow(g, i, MOON) * 2 > GRID_SIZE)
       /\ ~(TangoCountCol(g, i, SUN) * 2 > GRID_SIZE
            \/ TangoCountCol(g, i, MOON) * 2 > GRID_SIZE)

\* TangoFirstEmpty scanning column by column
TangoFirstEmptyByColumn(g) ==
  LET empties == { n \in 0 .. GRID_SIZE * GRID_SIZE - 1 :
                     g[n % GRID_SIZE][n \div GRID_SIZE] = EMPTY }
      first == CHOOSE n \in empties : \A j \in empties : n <= j
  IN  <<first % GRID_SIZE, first \div GRID_SIZE>>

\* "Find first empty cell": row-major
TangoFirstEmpty(g) ==
  LET empties == { n \in 0 .. GRID_SIZE * GRID_SIZE - 1 :
                     g[n \div GRID_SIZE][n % GRID_SIZE] = EMPTY }
      first == CHOOSE n \in empties : \A j \in empties : n <= j
  IN  <<first \div GRID_SIZE, first % GRID_SIZE>>

\* what the call returns right after the loop, when it does: the grid when
\* isSolved, null when the partial grid is invalid; <<>> means "go on to guess"
TangoAfterLoopReturn(g, constraints) ==
  IF isSolved(g) THEN <<g>>
  ELSE IF ~isValidTango(g, constraints) THEN <<NULL>>
  ELSE <<>>

\* applySolution(cells, currentGrid, solution): const target =
\* solution[row][col] is read at the first cell, in row-major order, that is
\* EMPTY in currentGrid (every cell of a loaded board has its element); with
\* solution null that read throws a TypeError
TangoApplyThrows(currentGrid, sol) ==
  /\ sol = NULL
  /\ \E row \in Idx : \E col \in Idx : currentGrid[row][col] = EMPTY

\* the click handler after solveTango returned: applySolution is called with
\* whatever was returned, inside try; an exception ends in the catch branch
TangoHandler(currentGrid, sol) ==
  IF TangoApplyThrows(currentGrid, sol) THEN "error" ELSE "applied"

\* a fresh activation of solveTango(grid, constraints): its parameter `grid`
\* and its locals
TangoFrame(grid) ==
  [at |-> "loop", grid |-> grid, solution |-> CopyGrid(grid), changed |-> TRUE,
   iterations |-> 0, row |-> 0, col |-> 0]

\* TangoGuess with the assignment of the guessed symbol left out
TangoGuessNotWritten(sol, row, col, v) == CopyGrid(sol)

\* TangoGuess writing SUN whatever symbol is to be tried
TangoGuessSunOnly(sol, row, col, v) == SetCell(CopyGrid(sol), row, col, SUN)

\* const trySun = solution.map((r) => [...r]); trySun[row][col] = SUN;
\* (and the same for tryMoon / MOON)
TangoGuess(sol, row, col, v) == SetCell(CopyGrid(sol), row, col, v)

\* Cells the parser may find filled, in the order in which the bound adds them.
\* <<0, 0>> and <<1, 1>> are the far ends of the first two edges below, which
\* meet in <<0, 1>>: the two signs can force that cell to different symbols.
TangoGivenOrder == << <<0, 0>>, <<1, 1>>, <<2, 0>>, <<0, 1>>, <<3, 3>>, <<5, 5>> >>

MaxTangoGivens == 3

TangoGivenCells ==
  { TangoGivenOrder[i] :
      i \in { j \in 1 .. Len(TangoGivenOrder) : j <= MaxTangoGivens } }

TangoGrids ==
  { [r \in Idx |-> [c \in Idx |->
       IF <<r, c>> \in TangoGivenCells THEN m[<<r, c>>] ELSE EMPTY]] :
      m \in [TangoGivenCells -> {EMPTY, SUN, MOON}] }

\* Edges that may carry a = or x sign, in the order the parser lists them
TangoEdgeOrder ==
  << [row1 |-> 0, col1 |-> 0, row2 |-> 0, col2 |-> 1],
     [row1 |-> 0, col1 |-> 1, row2 |-> 1, col2 |-> 1],
     [row1 |-> 2, col1 |-> 0, row2 |-> 3, col2 |-> 0],
     [row1 |-> 4, col1 |-> 4, row2 |-> 4, col2 |-> 5] >>

MaxTangoEdges == 2

TangoEdgeCount ==
  IF MaxTangoEdges < Len(TangoEdgeOrder) THEN MaxTangoEdges ELSE Len(TangoEdgeOrder)

\* the constraint list for a choice of sign ("" = no sign) on every edge
RECURSIVE TangoConstraintList(_, _)
TangoConstraintList(signs, i) ==
  IF i > TangoEdgeCount THEN <<>>
  ELSE LET rest == TangoConstraintList(signs, i + 1)
           e == TangoEdgeOrder[i]
       IN  IF signs[i] = "" THEN rest
           ELSE <<[type |-> signs[i], row1 |-> e.row1, col1 |-> e.col1,
                   row2 |-> e.row2, col2 |-> e.col2]>> \o rest

TangoConstraintLists ==
  { TangoConstraintList(signs, 1) :
      signs \in [1 .. TangoEdgeCount -> {"", EQUAL, OPPOSITE}] }

\* a board whose propagation stops on a valid partial grid that neither
\* symbol completes: row 0 is SUN _ _ MOON _ _ with (0,1) = (0,2)
TangoDeadEndBoard ==
  [grid |-> [r \in Idx |-> [c \in Idx |->
               IF r = 0 /\ c = 0 THEN SUN
               ELSE IF r = 0 /\ c = 3 THEN MOON ELSE EMPTY]],
   constraints |->
     << [type |-> EQUAL, row1 |-> 0, col1 |-> 1, row2 |-> 0, col2 |-> 2] >>]

TangoInputs ==
  { [grid |-> g, constraints |-> cs] : g \in TangoGrids, cs \in TangoConstraintLists }
    \cup {TangoDeadEndBoard}

TangoInit ==
  /\ game = "tango"
  /\ pc = "idle"
  /\ input \in TangoInputs
  /\ before = input
  /\ solution = NULL
  /\ stack = <<>>
  /\ ret = <<>>
  /\ queensPerRow = <<>>
  /\ queensPerCol = <<>>
  /\ queensPerRegion = <<>>
  /\ visited = <<>>
  /\ path = <<>>
  /\ result = NULL
  /\ solves = 0
  /\ outcome = "none"
  /\ previous = NULL
  /\ button = ButtonAdded(game)
  /\ page = PageReady

\* the click handler calls solveTango(grid, constraints)
solveTango ==
  /\ game = "tango"
  /\ pc = "idle"
  /\ ~button.disabled
  /\ button' = ButtonClicked(button)
  /\ outcome' = "none"
  /\ pc' = "running"
  /\ stack' = << TangoFrame(input.grid) >>
  /\ ret' = <<>>
  /\ solves' = solves + 1
  /\ UNCHANGED <<game, page, previous, input, before, solution, queensPerRow, queensPerCol,
                 queensPerRegion, visited, path, result>>

\* one pass of while (changed && iterations < maxIterations)
TangoPass ==
  /\ game = "tango"
  /\ pc = "running"
  /\ stack # <<>>
  /\ Top.at = "loop"
  /\ Top.changed /\ Top.iterations < maxIterations
  /\ LET st == TangoPassBody(Top.solution, input.constraints)
     IN  /\ stack' = SetTop([Top EXCEPT !.solution = st.g, !.changed = st.ch,
                                        !.iterations = @ + 1])
         \* only the outermost call was handed the caller's grid
         /\ input' = IF Len(stack) = 1 THEN CallerSees(input, st.g) ELSE input
  /\ UNCHANGED <<game, page, button, previous, outcome, pc, before, solution, ret, queensPerRow, queensPerCol,
                 queensPerRegion, visited, path, result, solves>>

\* after the loop: return the grid if isSolved, null if !isValid, otherwise
\* copy the grid, set its first empty cell to SUN and recurse
TangoAfterLoop ==
  /\ game = "tango"
  /\ pc = "running"
  /\ stack # <<>>
  /\ Top.at = "loop"
  /\ ~(Top.changed /\ Top.iterations < maxIterations)
  /\ LET out == TangoAfterLoopReturn(Top.solution, input.constraints)
     IN  IF out # <<>>
         THEN /\ stack' = Pop
              /\ ret' = out
         ELSE LET cell == TangoFirstEmpty(Top.solution)
                  trySun == TangoGuess(Top.solution, cell[1], cell[2], SUN)
              IN  /\ stack' = Append(SetTop([Top EXCEPT
                                               !.at = "sun",
                                               !.row = cell[1],
                                               !.col = cell[2],
                                               !.solution = TrySees(@, trySun)]),
                                     TangoFrame(trySun))
                  /\ ret' = <<>>
  /\ UNCHANGED <<game, page, button, previous, outcome, pc, input, before, solution, queensPerRow, queensPerCol,
                 queensPerRegion, visited, path, result, solves>>

\* if (resultSun) return resultSun; otherwise the same with MOON
TangoAfterSun ==
  /\ game = "tango"
  /\ pc = "running"
  /\ stack # <<>>
  /\ Top.at = "sun"
  /\ ret # <<>>
  /\ IF ret[1] # NULL
     THEN /\ stack' = Pop
          /\ UNCHANGED ret
     ELSE LET tryMoon == TangoGuess(Top.solution, Top.row, Top.col, MOON)
          IN  /\ stack' = Append(SetTop([Top EXCEPT
                                           !.at = "moon",
                                           !.solution = TrySees(@, tryMoon)]),
                                 TangoFrame(tryMoon))
              /\ ret' = <<>>
  /\ UNCHANGED <<game, page, button, previous, outcome, pc, input, before, solution, queensPerRow, queensPerCol,
                 queensPerRegion, visited, path, result, solves>>

\* if (resultMoon) return resultMoon; return null;
TangoAfterMoon ==
  /\ game = "tango"
  /\ pc = "running"
  /\ stack # <<>>
  /\ Top.at = "moon"
  /\ ret # <<>>
  /\ stack' = Pop
  /\ UNCHANGED <<game, page, button, previous, outcome, pc, input, before, solution, ret, queensPerRow, queensPerCol,
                 queensPerRegion, visited, path, result, solves>>

\* the outermost call returns to the click handler
TangoFinish ==
  /\ game = "tango"
  /\ pc = "running"
  /\ stack = <<>>
  /\ ret # <<>>
  /\ result' = ret[1]
  /\ pc' = "done"
  /\ outcome' = TangoHandler(input.grid, result')
  /\ button' = ButtonAfterHandler(game, button, outcome')
  /\ ret' = <<>>
  /\ UNCHANGED <<game, page, previous, input, before, solution, stack, queensPerRow, queensPerCol,
                 queensPerRegion, visited, path, solves>>

\* Solve is clicked again on the board the returned grid was applied to
TangoSolveAgain ==
  /\ game = "tango"
  /\ pc = "done"
  /\ ~button.disabled
  /\ result # NULL
  /\ solves <= MaxResolves
  /\ input' = [input EXCEPT !.grid = result]
  /\ before' = input'
  /\ pc' = "idle"
  /\ outcome' = "none"
  /\ UNCHANGED button
  /\ previous' = result
  /\ result' = NULL
  /\ UNCHANGED <<game, page, solution, stack, ret, queensPerRow, queensPerCol,
                 queensPerRegion, visited, path, solves>>

TangoNext ==
  \/ solveTango
  \/ TangoPass
  \/ TangoAfterLoop
  \/ TangoAfterSun
  \/ TangoAfterMoon
  \/ TangoFinish
  \/ TangoSolveAgain
  \/ ClickUnparsed
  \/ ApplySolutionDone
  \/ ButtonTimer

SpecTango == TangoInit /\ [][TangoNext]_vars

\* The steps of one synchronous run of solveTango: once the click handler has
\* called the solver, JavaScript runs it to its return without interruption.
TangoSolverStep ==
  \/ TangoPass
  \/ TangoAfterLoop
  \/ TangoAfterSun
  \/ TangoAfterMoon
  \/ TangoFinish

SpecTangoFair == TangoInit /\ [][TangoNext]_vars /\ WF_vars(TangoSolverStep)

(***************************************************************************)
(* Zip                                                                     *)
(***************************************************************************)

\* What getNextRequiredWaypoint and getWaypointAt return for "none": null.
\* `===` never equates null with a label and `label > null` compares the
\* label with 0; the parser only records labels > 0, so 0 stands for null.
ZipNull == 0

ZIdx(size) == 0 .. size - 1

\* Array.from(waypoints.keys()).sort((a, b) => a - b)
RECURSIVE SortAscending(_)
SortAscending(S) ==
  IF S = {} THEN <<>>
  ELSE LET least == CHOOSE x \in S : \A y \in S : x <= y
       IN  <<least>> \o SortAscending(S \ {least})

\* the sort with its comparator reversed: (a, b) => b - a
RECURSIVE SortDescending(_)
SortDescending(S) ==
  IF S = {} THEN <<>>
  ELSE LET most == CHOOSE x \in S : \A y \in S : x >= y
       IN  <<most>> \o SortDescending(S \ {most})

ZipWaypointNumsDescending(waypoints) == SortDescending(DOMAIN waypoints)

ZipWaypointNums(waypoints) == SortAscending(DOMAIN waypoints)

\* directions listed right, left, down, up
directionsRightFirst ==
  << [dr |-> 0,  dc |-> 1,  wallFrom |-> "right",  wallTo |-> "left"],
     [dr |-> 0,  dc |-> -1, wallFrom |-> "left",   wallTo |-> "right"],
     [dr |-> 1,  dc |-> 0,  wallFrom |-> "bottom", wallTo |-> "top"],
     [dr |-> -1, dc |-> 0,  wallFrom |-> "top",    wallTo |-> "bottom"] >>

\* directions: [dr, dc, wallFromCurrent, wallToNeighbor], tried in this order
directions ==
  << [dr |-> -1, dc |-> 0,  wallFrom |-> "top",    wallTo |-> "bottom"],
     [dr |-> 1,  dc |-> 0,  wallFrom |-> "bottom", wallTo |-> "top"],
     [dr |-> 0,  dc |-> -1, wallFrom |-> "left",   wallTo |-> "right"],
     [dr |-> 0,  dc |-> 1,  wallFrom |-> "right",  wallTo |-> "left"] >>

\* getNextRequiredWaypoint(currentWaypointIndex), index counted from 0
getNextRequiredWaypoint(waypointNums, currentWaypointIndex) ==
  IF currentWaypointIndex >= Len(waypointNums) THEN ZipNull
  ELSE waypointNums[currentWaypointIndex + 1]

\* getWaypointAt(row, col)
getWaypointAt(waypoints, row, col) ==
  IF \E num \in DOMAIN waypoints : waypoints[num] = <<row, col>>
  THEN CHOOSE num \in DOMAIN waypoints : waypoints[num] = <<row, col>>
  ELSE ZipNull

\* the waypoint test at the top of dfs: "advance" (the cell holds the expected
\* label), "reject" (it holds a greater one) or "pass"
ZipArrive(waypoints, waypointNums, row, col, nextWaypointIndex) ==
  LET currentWaypoint == getWaypointAt(waypoints, row, col)
      expectedWaypoint == getNextRequiredWaypoint(waypointNums, nextWaypointIndex)
  IN  IF currentWaypoint = ZipNull THEN "pass"
      ELSE IF currentWaypoint = expectedWaypoint THEN "advance"
      ELSE IF currentWaypoint > expectedWaypoint THEN "reject"
      ELSE "pass"

\* the terminal test: path.length === totalCells
ZipPathComplete(p, size) == Len(p) = size * size

\* newWaypointIndex >= waypointNums.length
ZipAllConsumed(waypointNums, newWaypointIndex) == newWaypointIndex >= Len(waypointNums)

\* ZipWallBlocks looking at the wall flags of the current cell only
ZipWallBlocksFromOnly(walls, row, col, nr, nc, d) == walls[row][col][d.wallFrom]

\* if (walls[row][col][wallFrom]) continue; if (walls[nr][nc][wallTo]) continue;
ZipWallBlocks(walls, row, col, nr, nc, d) ==
  walls[row][col][d.wallFrom] \/ walls[nr][nc][d.wallTo]

\* ZipCanStep skipping also the neighbour that holds the expected label
ZipCanStepNotOntoExpected(size, waypoints, waypointNums, walls, vis, row, col, d, newWaypointIndex) ==
  LET nr == row + d.dr
      nc == col + d.dc
  IN  /\ ~(nr < 0 \/ nr >= size \/ nc < 0 \/ nc >= size)
      /\ ~vis[nr][nc]
      /\ ~ZipWallBlocks(walls, row, col, nr, nc, d)
      /\ LET nextWaypoint == getWaypointAt(waypoints, nr, nc)
         IN  ~(nextWaypoint # ZipNull
               /\ nextWaypoint >= getNextRequiredWaypoint(waypointNums, newWaypointIndex))

\* ZipCanStep without the test of the label on the target cell
ZipCanStepAnyLabel(size, waypoints, waypointNums, walls, vis, row, col, d, newWaypointIndex) ==
  LET nr == row + d.dr
      nc == col + d.dc
  IN  /\ ~(nr < 0 \/ nr >= size \/ nc < 0 \/ nc >= size)
      /\ ~vis[nr][nc]
      /\ ~ZipWallBlocks(walls, row, col, nr, nc, d)

\* the tests of the direction loop before the recursive call, for direction d
\* from (row, col): in the grid, not visited, no wall on either side of the
\* edge, and no waypoint label greater than the expected one on the target
ZipCanStep(size, waypoints, waypointNums, walls, vis, row, col, d, newWaypointIndex) ==
  LET nr == row + d.dr
      nc == col + d.dc
  IN  /\ ~(nr < 0 \/ nr >= size \/ nc < 0 \/ nc >= size)
      /\ ~vis[nr][nc]
      /\ ~ZipWallBlocks(walls, row, col, nr, nc, d)
      /\ LET nextWaypoint == getWaypointAt(waypoints, nr, nc)
         IN  ~(nextWaypoint # ZipNull
               /\ nextWaypoint > getNextRequiredWaypoint(waypointNums, newWaypointIndex))

MaxZipSize == 3

\* Cells that may carry a waypoint label, in the order the bound adds them
ZipWaypointOrder == << <<0, 0>>, <<2, 2>>, <<1, 1>>, <<0, 2>>, <<1, 0>> >>

MaxZipWaypointCells == 3

\* the labels that may occur on the board are 1 .. MaxZipLabel
MaxZipLabel == 3

ZipWaypointCells(size) ==
  { ZipWaypointOrder[i] :
      i \in { j \in 1 .. Len(ZipWaypointOrder) :
                /\ j <= MaxZipWaypointCells
                /\ ZipWaypointOrder[j][1] < size
                /\ ZipWaypointOrder[j][2] < size } }

\* the parser records one label per cell and one cell per label
ZipWaypointMaps(size) ==
  UNION { { w \in [labels -> ZipWaypointCells(size)] :
              \A a \in labels : \A b \in labels : a # b => w[a] # w[b] } :
          labels \in SUBSET (1 .. MaxZipLabel) }

\* Wall flags that may be set: <<row, col, side>>. Each is recorded on one
\* side of its edge only (the cell on the other side has no flag).
ZipWallOrder == << <<0, 0, "right">>, <<1, 1, "top">>, <<1, 0, "bottom">>,
                   <<2, 1, "left">> >>

MaxZipWalls == 2

ZipWallFlags(size) ==
  { ZipWallOrder[i] :
      i \in { j \in 1 .. Len(ZipWallOrder) :
                /\ j <= MaxZipWalls
                /\ ZipWallOrder[j][1] < size
                /\ ZipWallOrder[j][2] < size } }

ZipWallMaps(size) ==
  { [r \in ZIdx(size) |-> [c \in ZIdx(size) |->
       [side \in {"top", "right", "bottom", "left"} |-> <<r, c, side>> \in flags]]] :
      flags \in SUBSET ZipWallFlags(size) }

ZipInputs ==
  UNION { { [size |-> size, waypoints |-> w, walls |-> wl] :
              w \in ZipWaypointMaps(size), wl \in ZipWallMaps(size) } :
          size \in 1 .. MaxZipSize }

ZipInit ==
  /\ game = "zip"
  /\ pc = "idle"
  /\ input \in ZipInputs
  /\ before = input
  /\ solution = NULL
  /\ stack = <<>>
  /\ ret = <<>>
  /\ queensPerRow = <<>>
  /\ queensPerCol = <<>>
  /\ queensPerRegion = <<>>
  /\ visited = <<>>
  /\ path = <<>>
  /\ result = NULL
  /\ solves = 0
  /\ outcome = "none"
  /\ previous = NULL
  /\ button = ButtonAdded(game)
  /\ page = PageReady

\* the click handler after solveZip returned: if (!solution) reports that no
\* solution was found and returns; otherwise applySolution is called
ZipHandler(sol) == IF sol = NULL THEN "nosolution" ELSE "applied"

\* ZipPathPop leaving the last cell in the path
ZipPathPopKept(p) == p

\* path.pop()
ZipPathPop(p) == SubSeq(p, 1, Len(p) - 1)

\* a call dfs(row, col, nextWaypointIndex); called records what path and
\* visited held when the call was made
ZipFrame(row, col, nextWaypointIndex, p, vis) ==
  [at |-> "entry", row |-> row, col |-> col,
   nextWaypointIndex |-> nextWaypointIndex,
   newWaypointIndex |-> nextWaypointIndex, dir |-> 1,
   called |-> [path |-> p, visited |-> vis]]

\* solveZip(size, waypoints, walls) up to the first call of dfs: no waypoint
\* at all returns null at once
solveZip ==
  /\ game = "zip"
  /\ pc = "idle"
  /\ ~button.disabled
  /\ visited' = [r \in ZIdx(input.size) |-> [c \in ZIdx(input.size) |-> FALSE]]
  /\ path' = <<>>
  /\ solves' = solves + 1
  /\ ret' = <<>>
  /\ LET waypointNums == ZipWaypointNums(input.waypoints)
     IN  IF Len(waypointNums) = 0
         THEN /\ pc' = "done"
              /\ result' = NULL
              /\ outcome' = ZipHandler(NULL)
              /\ button' = ButtonAfterHandler(game, ButtonClicked(button), outcome')
              /\ stack' = <<>>
         ELSE LET start == input.waypoints[waypointNums[1]]
              IN  /\ pc' = "running"
                  /\ stack' = << ZipFrame(start[1], start[2], 0, path', visited') >>
                  /\ outcome' = "none"
                  /\ button' = ButtonClicked(button)
                  /\ UNCHANGED result
  /\ UNCHANGED <<game, page, previous, input, before, solution, queensPerRow, queensPerCol,
                 queensPerRegion>>

\* dfs(row, col, nextWaypointIndex) up to the direction loop
ZipDfsEntry ==
  /\ game = "zip"
  /\ pc = "running"
  /\ stack # <<>>
  /\ Top.at = "entry"
  /\ LET waypointNums == ZipWaypointNums(input.waypoints)
         arrive == ZipArrive(input.waypoints, waypointNums, Top.row, Top.col,
                             Top.nextWaypointIndex)
         newWaypointIndex == IF arrive = "advance" THEN Top.nextWaypointIndex + 1
                             ELSE Top.nextWaypointIndex
         pushed == Append(path, <<Top.row, Top.col>>)
     IN  IF arrive = "reject"
         THEN \* path.pop(); visited[row][col] = false; return false;
              /\ path' = path
              /\ visited' = SetCell(visited, Top.row, Top.col, FALSE)
              /\ stack' = Pop
              /\ ret' = <<FALSE>>
         ELSE IF ZipPathComplete(pushed, input.size)
         THEN IF ZipAllConsumed(waypointNums, newWaypointIndex)
              THEN /\ path' = pushed
                   /\ visited' = SetCell(visited, Top.row, Top.col, TRUE)
                   /\ stack' = Pop
                   /\ ret' = <<TRUE>>
              ELSE /\ path' = path
                   /\ visited' = SetCell(visited, Top.row, Top.col, FALSE)
                   /\ stack' = Pop
                   /\ ret' = <<FALSE>>
         ELSE /\ path' = pushed
              /\ visited' = SetCell(visited, Top.row, Top.col, TRUE)
              /\ stack' = SetTop([Top EXCEPT !.at = "dirs", !.dir = 1,
                                             !.newWaypointIndex = newWaypointIndex])
              /\ ret' = <<>>
  /\ UNCHANGED <<game, page, button, previous, outcome, pc, input, before, solution, queensPerRow, queensPerCol,
                 queensPerRegion, result, solves>>

\* one iteration of for (... of directions); the loop running out is
\* path.pop(); visited[row][col] = false; return false;
ZipTryDirection ==
  /\ game = "zip"
  /\ pc = "running"
  /\ stack # <<>>
  /\ Top.at = "dirs"
  /\ IF Top.dir > Len(directions)
     THEN /\ path' = ZipPathPop(path)
          /\ visited' = SetCell(visited, Top.row, Top.col, FALSE)
          /\ stack' = Pop
          /\ ret' = <<FALSE>>
     ELSE IF ZipCanStep(input.size, input.waypoints,
                        ZipWaypointNums(input.waypoints), input.walls, visited,
                        Top.row, Top.col, directions[Top.dir], Top.newWaypointIndex)
     THEN /\ stack' = Append(SetTop([Top EXCEPT !.at = "wait"]),
                             ZipFrame(Top.row + directions[Top.dir].dr,
                                      Top.col + directions[Top.dir].dc,
                                      Top.newWaypointIndex, path, visited))
          /\ ret' = <<>>
          /\ UNCHANGED <<path, visited>>
     ELSE /\ stack' = SetTop([Top EXCEPT !.dir = @ + 1])
          /\ ret' = <<>>
          /\ UNCHANGED <<path, visited>>
  /\ UNCHANGED <<game, page, button, previous, outcome, pc, input, before, solution, queensPerRow, queensPerCol,
                 queensPerRegion, result, solves>>

\* if (dfs(nr, nc, newWaypointIndex)) return true; (next direction)
ZipAfterCall ==
  /\ game = "zip"
  /\ pc = "running"
  /\ stack # <<>>
  /\ Top.at = "wait"
  /\ ret # <<>>
  /\ IF ret[1]
     THEN /\ stack' = Pop
          /\ UNCHANGED ret
     ELSE /\ stack' = SetTop([Top EXCEPT !.at = "dirs", !.dir = @ + 1])
          /\ ret' = <<>>
  /\ UNCHANGED <<game, page, button, previous, outcome, pc, input, before, solution, queensPerRow, queensPerCol,
                 queensPerRegion, visited, path, result, solves>>

\* if (dfs(start.row, start.col, 0)) return path; return null;
ZipFinish ==
  /\ game = "zip"
  /\ pc = "running"
  /\ stack = <<>>
  /\ ret # <<>>
  /\ result' = (IF ret[1] THEN path ELSE NULL)
  /\ pc' = "done"
  /\ outcome' = ZipHandler(result')
  /\ button' = ButtonAfterHandler(game, button, outcome')
  /\ ret' = <<>>
  /\ UNCHANGED <<game, page, previous, input, before, solution, stack, queensPerRow, queensPerCol,
                 queensPerRegion, visited, path, solves>>

\* the button is clicked again while the page shows the same board: the
\* parser hands solveZip the same size, waypoints and walls
ZipSolveAgain ==
  /\ game = "zip"
  /\ pc = "done"
  /\ ~button.disabled
  /\ solves <= MaxResolves
  /\ pc' = "idle"
  /\ outcome' = "none"
  /\ UNCHANGED button
  /\ previous' = result
  /\ result' = NULL
  /\ UNCHANGED <<game, page, input, before, solution, stack, ret, queensPerRow,
                 queensPerCol, queensPerRegion, visited, path, solves>>

ZipNext ==
  \/ solveZip
  \/ ZipDfsEntry
  \/ ZipTryDirection
  \/ ZipAfterCall
  \/ ZipFinish
  \/ ZipSolveAgain
  \/ ClickUnparsed
  \/ ApplySolutionDone
  \/ ButtonTimer

SpecZip == ZipInit /\ [][ZipNext]_vars

(***************************************************************************)
(* The four content scripts together                                       *)
(***************************************************************************)

Init == SudokuInit \/ QueensInit \/ TangoInit \/ ZipInit

Next == SudokuNext \/ QueensNext \/ TangoNext \/ ZipNext

Spec == Init /\ [][Next]_vars

(***************************************************************************)
(* What a solved board is, stated from the rules of each puzzle            *)
(***************************************************************************)

SudokuBlockCells(br, bc) ==
  { <<r, c>> : r \in br * BLOCK_ROWS .. br * BLOCK_ROWS + BLOCK_ROWS - 1,
               c \in bc * BLOCK_COLS .. bc * BLOCK_COLS + BLOCK_COLS - 1 }

\* every row, column and 2x3 block holds each of 1..6 exactly once (six cells
\* whose set of values is 1..6)
SudokuSolved(g) ==
  /\ \A r \in Idx : { g[r][c] : c \in Idx } = 1 .. GRID_SIZE
  /\ \A c \in Idx : { g[r][c] : r \in Idx } = 1 .. GRID_SIZE
  /\ \A br \in 0 .. (GRID_SIZE \div BLOCK_ROWS) - 1 :
       \A bc \in 0 .. (GRID_SIZE \div BLOCK_COLS) - 1 :
         { g[rc[1]][rc[2]] : rc \in SudokuBlockCells(br, bc) } = 1 .. GRID_SIZE

\* two filled cells of one row hold the same value
SudokuRowDuplicate(g) ==
  \E r \in Idx : \E c1 \in Idx : \E c2 \in Idx :
    c1 # c2 /\ g[r][c1] # 0 /\ g[r][c1] = g[r][c2]

\* values that no filled cell of the row, column or block of (r, c) holds
SudokuFree(g, r, c) ==
  { v \in 1 .. GRID_SIZE :
      /\ \A j \in Idx : g[r][j] # v /\ g[j][c] # v
      /\ \A rc \in SudokuBlockCells(r \div BLOCK_ROWS, c \div BLOCK_COLS) :
           g[rc[1]][rc[2]] # v }

\* all ways of filling the empty cells from cell k on that keep rows, columns
\* and blocks free of repetitions among the filled-in values
RECURSIVE SudokuFillings(_, _)
SudokuFillings(g, k) ==
  IF k >= GRID_SIZE * GRID_SIZE THEN {g}
  ELSE LET r == k \div GRID_SIZE
           c == k % GRID_SIZE
       IN  IF g[r][c] # 0 THEN SudokuFillings(g, k + 1)
           ELSE UNION { SudokuFillings(SetCell(g, r, c, v), k + 1) :
                          v \in SudokuFree(g, r, c) }

\* the valid completions of g: solved boards that agree with g on its filled cells
SudokuCompletions(g) == { h \in SudokuFillings(g, 0) : SudokuSolved(h) }

\* a comes before b in row-major lexicographic order
SudokuLexLess(a, b) ==
  \E k \in 0 .. GRID_SIZE * GRID_SIZE - 1 :
    /\ a[k \div GRID_SIZE][k % GRID_SIZE] < b[k \div GRID_SIZE][k % GRID_SIZE]
    /\ \A j \in 0 .. k - 1 :
         a[j \div GRID_SIZE][j % GRID_SIZE] = b[j \div GRID_SIZE][j % GRID_SIZE]

QueensAt(g, size) == { rc \in QIdx(size) \X QIdx(size) : g[rc[1]][rc[2]] = QUEEN }

QueensAdjacent(a, b) ==
  /\ a # b
  /\ a[1] - b[1] \in -1 .. 1
  /\ a[2] - b[2] \in -1 .. 1

\* one queen per row, per column and per region, no two queens touching
QueensSolved(g, regions, size) ==
  /\ \A r \in QIdx(size) : Cardinality({ q \in QueensAt(g, size) : q[1] = r }) = 1
  /\ \A c \in QIdx(size) : Cardinality({ q \in QueensAt(g, size) : q[2] = c }) = 1
  /\ \A id \in QueensRegionIds(regions, size) :
       Cardinality({ q \in QueensAt(g, size) : regions[q[1]][q[2]] = id }) = 1
  /\ \A a \in QueensAt(g, size) : \A b \in QueensAt(g, size) : ~QueensAdjacent(a, b)

\* the four rules of Tango on a grid without empty cells
TangoSolved(g, constraints) ==
  /\ \A r \in Idx : \A c \in Idx : g[r][c] \in {SUN, MOON}
  /\ \A i \in 1 .. Len(constraints) :
       LET e == constraints[i]
       IN  /\ e.type = EQUAL => g[e.row1][e.col1] = g[e.row2][e.col2]
           /\ e.type = OPPOSITE => g[e.row1][e.col1] # g[e.row2][e.col2]
  /\ \A r \in Idx : \A c \in 0 .. GRID_SIZE - 3 :
       /\ ~(g[r][c] = g[r][c + 1] /\ g[r][c] = g[r][c + 2])
       /\ ~(g[c][r] = g[c + 1][r] /\ g[c][r] = g[c + 2][r])
  /\ \A i \in Idx : \A v \in {SUN, MOON} :
       /\ Cardinality({ j \in Idx : g[i][j] = v }) * 2 = GRID_SIZE
       /\ Cardinality({ j \in Idx : g[j][i] = v }) * 2 = GRID_SIZE

\* p[i] and p[i + 1] are neighbours in the grid
ZipAdjacent(a, b) ==
  \/ a[1] = b[1] /\ (a[2] - b[2] = 1 \/ b[2] - a[2] = 1)
  \/ a[2] = b[2] /\ (a[1] - b[1] = 1 \/ b[1] - a[1] = 1)

\* a wall flag lies on the edge between the neighbours a and b, on either side
ZipWallBetween(walls, a, b) ==
  \E d \in { directions[i] : i \in 1 .. Len(directions) } :
    /\ b = <<a[1] + d.dr, a[2] + d.dc>>
    /\ (walls[a[1]][a[2]][d.wallFrom] \/ walls[b[1]][b[2]][d.wallTo])

ZipCells(size) == ZIdx(size) \X ZIdx(size)

ZipPositions(p, cell) == { i \in 1 .. Len(p) : p[i] = cell }

Done(g) == game = g /\ pc = "done"

Returned(g) == Done(g) /\ result # NULL

(***************************************************************************)
(* Claims                                                                  *)
(***************************************************************************)

\* C1: every grid solveTango returns satisfies the four rules: each `equal`
\* pair holds the same symbol, each `opposite` pair different symbols, no row
\* or column has three identical symbols in a row, and every row and column
\* holds exactly 3 suns and 3 moons.
C1_TangoReturnsValidGrid ==
  Returned("tango") => TangoSolved(result, input.constraints)

\* C2: every grid solveQueens returns has exactly one queen in every row,
\* column and region and no two queens in 8-directionally adjacent cells,
\* whatever queens and crosses the input grid already holds.
C2_QueensReturnsValidGrid ==
  Returned("queens") => QueensSolved(result, input.regions, input.size)

\* C3: every path solveZip returns has size*size cells, holds every grid
\* coordinate exactly once, and any two consecutive coordinates are
\* 4-adjacent with no wall flag on their shared edge on either side.
C3_ZipPathCoversGrid ==
  Returned("zip") =>
    /\ Len(result) = input.size * input.size
    /\ \A cell \in ZipCells(input.size) :
         Cardinality(ZipPositions(result, cell)) = 1
    /\ \A i \in 1 .. Len(result) - 1 :
         /\ ZipAdjacent(result[i], result[i + 1])
         /\ ~ZipWallBetween(input.walls, result[i], result[i + 1])

\* C3 witness: a path was returned on a board of at least 2x2 cells that has
\* a wall flag recorded on one side of an edge only
C3_Witness ==
  /\ Returned("zip")
  /\ input.size >= 2
  /\ \E a \in ZipCells(input.size) : \E d \in { directions[i] : i \in 1 .. 4 } :
       LET b == <<a[1] + d.dr, a[2] + d.dc>>
       IN  /\ b \in ZipCells(input.size)
           /\ input.walls[a[1]][a[2]][d.wallFrom]
           /\ ~input.walls[b[1]][b[2]][d.wallTo]

\* C4: in every returned path the waypoint cells occur in strictly ascending
\* label order, and a path is returned only if it has all size*size cells and
\* contains every waypoint.
C4_ZipWaypointsAscending ==
  Returned("zip") =>
    /\ Len(result) = input.size * input.size
    /\ \A a \in DOMAIN input.waypoints :
         ZipPositions(result, input.waypoints[a]) # {}
    /\ \A a \in DOMAIN input.waypoints : \A b \in DOMAIN input.waypoints :
         a < b =>
           \A i \in ZipPositions(result, input.waypoints[a]) :
             \A j \in ZipPositions(result, input.waypoints[b]) : i < j

\* C4 witness: a path was returned for a board with two waypoints
C4_Witness ==
  /\ Returned("zip")
  /\ Cardinality(DOMAIN input.waypoints) >= 2

\* C5: every grid solveSudoku returns has each value 1..6 exactly once in
\* every row, every column and every 2x3 block, whatever the prefilled cells
\* of the input are.
C5_SudokuReturnsValidGrid ==
  Returned("sudoku") => SudokuSolved(result)

\* C6: an input in which two prefilled cells of one row hold the same value
\* makes solveSudoku return null, whatever the other cells hold.
C6_SudokuRowDuplicateGivesNull ==
  (Done("sudoku") /\ SudokuRowDuplicate(input.grid)) => result = NULL

C8_SudokuKeepsGivenCells ==
  Returned("sudoku") =>
    \A r \in Idx : \A c \in Idx :
      input.grid[r][c] # 0 => result[r][c] = input.grid[r][c]

\* C8 witness: a grid was returned for an input with filled cells and with
\* empty cells, which the solver filled
C8_Witness ==
  /\ Returned("sudoku")
  /\ \E r \in Idx : \E c \in Idx : input.grid[r][c] = 0 /\ result[r][c] # 0
  /\ \E r \in Idx : \E c \in Idx : input.grid[r][c] # 0

\* C9: when the input has valid completions, solveSudoku returns one of them,
\* and it is the first in lexicographic order (cells read row-major, values
\* ascending); with a single valid completion it returns that one.
C9_SudokuReturnsFirstCompletion ==
  (Done("sudoku") /\ SudokuCompletions(input.grid) # {}) =>
    /\ result \in SudokuCompletions(input.grid)
    /\ \A h \in SudokuCompletions(input.grid) :
         h # result => SudokuLexLess(result, h)

\* C9 witness: a grid was returned for an input with several valid completions
C9_Witness ==
  /\ Returned("sudoku")
  /\ Cardinality(SudokuCompletions(input.grid)) >= 2

\* C10: solving a fully solved, valid grid again returns that grid, cell for
\* cell (solveSudoku, solveQueens and solveTango).
C10_SolvedGridIsReturned ==
  /\ (Done("sudoku") /\ SudokuSolved(input.grid)) => result = input.grid
  /\ (Done("queens") /\ QueensSolved(input.grid, input.regions, input.size)) =>
       result = input.grid
  /\ (Done("tango") /\ TangoSolved(input.grid, input.constraints)) =>
       result = input.grid

\* C10 witness: solveQueens was run a second time, on the valid grid its
\* first run returned
C10_Witness ==
  /\ Done("queens")
  /\ solves = 2
  /\ QueensSolved(input.grid, input.regions, input.size)
  /\ input.size >= 4

\* a wall flag set on one side of an edge whose other side has none
ZipOneSidedWall(size, walls) ==
  \E a \in ZipCells(size) : \E d \in { directions[i] : i \in 1 .. Len(directions) } :
    LET b == <<a[1] + d.dr, a[2] + d.dc>>
    IN  /\ b \in ZipCells(size)
        /\ walls[a[1]][a[2]][d.wallFrom]
        /\ ~walls[b[1]][b[2]][d.wallTo]

\* the board is malformed: no waypoint, no label 1, or an inconsistent wall pair
ZipMalformed(inp) ==
  \/ DOMAIN inp.waypoints = {}
  \/ 1 \notin DOMAIN inp.waypoints
  \/ ZipOneSidedWall(inp.size, inp.walls)

\* C11: on a malformed Zip board (no waypoint, no label 1, or a wall recorded
\* on one side of an edge only) solveZip never starts the depth-first search,
\* and what it returns is neither a path nor the no-solution value null.
C11_ZipMalformedInputRejected ==
  (game = "zip" /\ ZipMalformed(input)) =>
    /\ stack = <<>>
    /\ path = <<>>
    /\ pc = "done" => result # NULL /\ Len(result) # input.size * input.size

\* across one step of solveTango, every activation that waits for a callee
\* after the step (the one that just made a call included) holds the grid it
\* held before the step
TangoWaitingGridsKept ==
  (game = "tango" /\ pc = "running" /\ pc' = "running") =>
    \A i \in 1 .. Len(stack) :
      (i < Len(stack') \/ (i < Len(stack) /\ i <= Len(stack'))) =>
        stack'[i].solution = stack[i].solution

TangoFilled(g) ==
  Cardinality({ rc \in Idx \X Idx : g[rc[1]][rc[2]] # EMPTY })

\* C13: solveTango terminates: a run that was started returns; the loop makes
\* at most one pass per cell plus one; every recursive call is handed a grid
\* with strictly more non-empty cells than the grid its caller was handed;
\* and the calls nested inside the outermost one are never more than the
\* empty cells of the input.
C13_TangoTerminates ==
  /\ [](game = "tango" =>
          /\ \A i \in 1 .. Len(stack) :
               stack[i].iterations <= GRID_SIZE * GRID_SIZE + 1
          /\ \A i \in 2 .. Len(stack) :
               TangoFilled(stack[i].grid) > TangoFilled(stack[i - 1].grid)
          /\ stack # <<>> =>
               Len(stack) - 1 <= GRID_SIZE * GRID_SIZE - TangoFilled(input.grid))
  /\ ((game = "tango" /\ pc = "running") ~> (pc = "done"))

\* C13 witness: a run that needed at least two nested fallback calls returned
\* (the third activation is on the stack; the run ends by the theorem)
C13_Witness ==
  /\ game = "tango"
  /\ Len(stack) >= 3
  /\ stack[3].iterations >= 2

\* the propagation loop of the outermost solveTango call has just exited: no
\* guess has been made yet
TangoPropagated ==
  /\ game = "tango"
  /\ pc = "running"
  /\ Len(stack) = 1
  /\ Top.at = "loop"
  /\ ~(Top.changed /\ Top.iterations < maxIterations)

\* exactly one side of the constraint c is non-empty in g
TangoOneSided(c, g) ==
  (g[c.row1][c.col1] = EMPTY) # (g[c.row2][c.col2] = EMPTY)

\* the side of c that is empty in g
TangoEmptySide(c, g) ==
  IF g[c.row1][c.col1] = EMPTY THEN <<c.row1, c.col1>> ELSE <<c.row2, c.col2>>

\* both sides of c are filled in h, alike for `equal`, different for `opposite`
TangoEdgeHolds(c, h) ==
  /\ h[c.row1][c.col1] # EMPTY
  /\ h[c.row2][c.col2] # EMPTY
  /\ c.type = EQUAL => h[c.row1][c.col1] = h[c.row2][c.col2]
  /\ c.type = OPPOSITE => h[c.row1][c.col1] # h[c.row2][c.col2]

\* no constraint before the i-th of the list has the cell as one of its sides
TangoFirstAt(constraints, i, cell) ==
  \A j \in 1 .. i - 1 :
    /\ <<constraints[j].row1, constraints[j].col1>> # cell
    /\ <<constraints[j].row2, constraints[j].col2>> # cell

\* C14 as stated: every constraint with exactly one non-empty side in the
\* input has its empty side forced by propagation alone, to the same symbol
\* (equal) or to the other one (opposite), and so it is in the returned grid.
C14_EdgeForcedByPropagation ==
  \A i \in 1 .. Len(input.constraints) :
    TangoOneSided(input.constraints[i], input.grid) =>
      /\ TangoPropagated => TangoEdgeHolds(input.constraints[i], Top.solution)
      /\ Returned("tango") => TangoEdgeHolds(input.constraints[i], result)

\* C14 as amended: the same, for the constraints whose empty side is not a
\* side of a constraint placed earlier in the list (an earlier constraint
\* may have filled that cell first, with the symbol it forces).
C14_EdgeForcedUnlessFilledEarlier ==
  \A i \in 1 .. Len(input.constraints) :
    (/\ TangoOneSided(input.constraints[i], input.grid)
     /\ TangoFirstAt(input.constraints, i,
                     TangoEmptySide(input.constraints[i], input.grid))) =>
      /\ TangoPropagated => TangoEdgeHolds(input.constraints[i], Top.solution)
      /\ Returned("tango") => TangoEdgeHolds(input.constraints[i], result)

\* C14 witness: the board that is empty except (0,0) = SUN, with the one edge
\* (0,0) = (0,1), after propagation: (0,1) holds SUN
C14_Witness ==
  /\ TangoPropagated
  /\ \A r \in Idx : \A c \in Idx :
       input.grid[r][c] = (IF r = 0 /\ c = 0 THEN SUN ELSE EMPTY)
  /\ input.constraints =
       << [type |-> EQUAL, row1 |-> 0, col1 |-> 0, row2 |-> 0, col2 |-> 1] >>
  /\ Top.solution[0][1] = SUN

\* the neighbour of the frame f in direction d is in the grid, not visited,
\* not behind a wall, and holds a waypoint label greater than the one f
\* requires next
ZipGreaterLabelAhead(f, d) ==
  LET nr == f.row + d.dr
      nc == f.col + d.dc
  IN  /\ ~(nr < 0 \/ nr >= input.size \/ nc < 0 \/ nc >= input.size)
      /\ ~visited[nr][nc]
      /\ ~ZipWallBlocks(input.walls, f.row, f.col, nr, nc, d)
      /\ getWaypointAt(input.waypoints, nr, nc) # ZipNull
      /\ getWaypointAt(input.waypoints, nr, nc) >
           getNextRequiredWaypoint(ZipWaypointNums(input.waypoints),
                                   f.newWaypointIndex)

\* the labels met along the path p, in path order
RECURSIVE ZipLabelsAlong(_)
ZipLabelsAlong(p) ==
  IF p = <<>> THEN <<>>
  ELSE LET before_ == ZipLabelsAlong(SubSeq(p, 1, Len(p) - 1))
           w == getWaypointAt(input.waypoints, p[Len(p)][1], p[Len(p)][2])
       IN  IF w = ZipNull THEN before_ ELSE Append(before_, w)

\* C15 as stated: a step onto a waypoint cell whose label is greater than the
\* required one is not rejected at that step; the search takes it.
C15_GreaterLabelPassedThrough ==
  (/\ game = "zip"
   /\ pc = "running"
   /\ stack # <<>>
   /\ Top.at = "dirs"
   /\ Top.dir <= Len(directions)
   /\ ZipGreaterLabelAhead(Top, directions[Top.dir])) =>
    ZipCanStep(input.size, input.waypoints, ZipWaypointNums(input.waypoints),
               input.walls, visited, Top.row, Top.col, directions[Top.dir],
               Top.newWaypointIndex)

\* C15 as amended: a step onto a waypoint cell whose label is greater than
\* the required one is never taken: the direction loop skips that neighbour,
\* no call of dfs is made on such a cell, and the labels along the path are
\* at every moment the first labels of the ascending list, in order.
C15_GreaterLabelNeverEntered ==
  (game = "zip" /\ pc = "running") =>
    /\ \A i \in 1 .. Len(stack) :
         /\ (stack[i].at = "dirs" /\ i = Len(stack)
             /\ stack[i].dir <= Len(directions)
             /\ ZipGreaterLabelAhead(stack[i], directions[stack[i].dir])) =>
              ~ZipCanStep(input.size, input.waypoints,
                          ZipWaypointNums(input.waypoints), input.walls, visited,
                          stack[i].row, stack[i].col, directions[stack[i].dir],
                          stack[i].newWaypointIndex)
         /\ stack[i].at = "entry" =>
              ZipArrive(input.waypoints, ZipWaypointNums(input.waypoints),
                        stack[i].row, stack[i].col,
                        stack[i].nextWaypointIndex) # "reject"
    /\ LET labels == ZipLabelsAlong(path)
           waypointNums == ZipWaypointNums(input.waypoints)
       IN  /\ Len(labels) <= Len(waypointNums)
           /\ labels = SubSeq(waypointNums, 1, Len(labels))

\* C15 witness: the direction loop has just skipped a neighbour holding a
\* label greater than the required one
C15_Witness ==
  /\ game = "zip"
  /\ pc = "running"
  /\ stack # <<>>
  /\ Top.at = "dirs"
  /\ Top.dir >= 2
  /\ Top.dir <= Len(directions) + 1
  /\ ZipGreaterLabelAhead(Top, directions[Top.dir - 1])

\* C16: in each of the four click handlers, a solver returning null ends in
\* the report that no solution was found: applySolution is not called and
\* the catch branch is not reached.
C16_NullIsReportedAsNoSolution ==
  (pc = "done" /\ result = NULL) => outcome = "nosolution"

\* the rows of six symbols with three of each and no three alike in a run
TangoRows ==
  { r \in [Idx -> {SUN, MOON}] :
      /\ Cardinality({ c \in Idx : r[c] = SUN }) * 2 = GRID_SIZE
      /\ \A c \in 0 .. GRID_SIZE - 3 : ~(r[c] = r[c + 1] /\ r[c] = r[c + 2]) }

\* rows is a sequence of complete rows 0 .. Len(rows) - 1 that agrees with g,
\* and breaks no rule that can be read off those rows
TangoRowsOk(g, constraints, rows) ==
  LET n == Len(rows)
  IN  /\ \A c \in Idx : g[n - 1][c] # EMPTY => rows[n][c] = g[n - 1][c]
      /\ \A c \in Idx : \A v \in {SUN, MOON} :
           Cardinality({ i \in 1 .. n : rows[i][c] = v }) * 2 <= GRID_SIZE
      /\ n >= 3 => \A c \in Idx :
           ~(rows[n][c] = rows[n - 1][c] /\ rows[n][c] = rows[n - 2][c])
      /\ \A i \in 1 .. Len(constraints) :
           LET e == constraints[i]
           IN  (e.row1 < n /\ e.row2 < n) =>
                 /\ e.type = EQUAL =>
                      rows[e.row1 + 1][e.col1] = rows[e.row2 + 1][e.col2]
                 /\ e.type = OPPOSITE =>
                      rows[e.row1 + 1][e.col1] # rows[e.row2 + 1][e.col2]

\* some complete grid with rows as its first rows agrees with g on every
\* non-empty cell and satisfies the edge, no-triple and balance rules
RECURSIVE TangoCompletableFrom(_, _, _)
TangoCompletableFrom(g, constraints, rows) ==
  IF Len(rows) = GRID_SIZE THEN TRUE
  ELSE \E r \in TangoRows :
         /\ TangoRowsOk(g, constraints, Append(rows, r))
         /\ TangoCompletableFrom(g, constraints, Append(rows, r))

TangoCompletable(g, constraints) == TangoCompletableFrom(g, constraints, <<>>)

\* C17: solveTango returns null only when no complete grid extends the input
\* and satisfies the edge constraints, the no-triple rule and the 3/3
\* balance rule; when one exists, a grid is returned.
C17_TangoComplete ==
  (Done("tango") /\ result = NULL) =>
    ~TangoCompletable(input.grid, input.constraints)

\* C17 witness: a board that has a valid completion, on which the SUN guess
\* of the outermost call failed, and for which a grid was returned
C17_Witness ==
  /\ Returned("tango")
  /\ \E row \in Idx : \E col \in Idx :
       /\ TangoFirstEmpty(input.grid) = <<row, col>>
       /\ input.grid[row][col] = EMPTY
       /\ result[row][col] = MOON
  /\ TangoCompletable(input.grid, input.constraints)

\* some path that starts with p, moves between neighbours without crossing a
\* wall, visits every cell of the grid once, and meets the labels in
\* ascending order
RECURSIVE ZipValidPathFrom(_)
ZipValidPathFrom(p) ==
  IF Len(p) = input.size * input.size
  THEN ZipLabelsAlong(p) = ZipWaypointNums(input.waypoints)
  ELSE \E n \in ZipCells(input.size) :
         /\ ZipAdjacent(p[Len(p)], n)
         /\ ZipPositions(p, n) = {}
         /\ ~ZipWallBetween(input.walls, p[Len(p)], n)
         /\ ZipValidPathFrom(Append(p, n))

\* a valid path exists from the cell of the lowest label
ZipValidPathExists ==
  ZipValidPathFrom(<< input.waypoints[ZipWaypointNums(input.waypoints)[1]] >>)

\* C18: with a non-empty waypoint map, solveZip returns null only when no
\* Hamiltonian path starts at the lowest label, crosses no wall and visits
\* the waypoints in ascending order; when one exists, a path is returned.
C18_ZipComplete ==
  (Done("zip") /\ result = NULL /\ DOMAIN input.waypoints # {}) =>
    ~ZipValidPathExists

\* C18 witness: a board of three waypoints with a wall on which a valid path
\* exists, and solveZip has returned a path
C18_Witness ==
  /\ Returned("zip")
  /\ input.size = 3
  /\ Cardinality(DOMAIN input.waypoints) = 3
  /\ \E r \in ZIdx(input.size) : \E c \in ZIdx(input.size) :
       \E side \in {"top", "right", "bottom", "left"} : input.walls[r][c][side]
  /\ ZipValidPathExists

\* the three accumulators hold the numbers of QUEEN cells of the working grid
\* (a region without a key counts as 0, as the code reads it)
QueensCountsExact ==
  /\ \A r \in QIdx(input.size) :
       queensPerRow[r] =
         Cardinality({ c \in QIdx(input.size) : solution[r][c] = QUEEN })
  /\ \A c \in QIdx(input.size) :
       queensPerCol[c] =
         Cardinality({ r \in QIdx(input.size) : solution[r][c] = QUEEN })
  /\ \A id \in QueensRegionIds(input.regions, input.size) :
       QueensRegionGet(queensPerRegion, id) =
         Cardinality({ rc \in QIdx(input.size) \X QIdx(input.size) :
                         /\ input.regions[rc[1]][rc[2]] = id
                         /\ solution[rc[1]][rc[2]] = QUEEN })

\* the working grid and the accumulators are what saved recorded
QueensRestored(saved) ==
  /\ solution = saved.solution
  /\ queensPerRow = saved.queensPerRow
  /\ queensPerCol = saved.queensPerCol
  /\ \A id \in QueensRegionIds(input.regions, input.size) :
       QueensRegionGet(queensPerRegion, id) =
         QueensRegionGet(saved.queensPerRegion, id)

\* C19: at every entry to solve(row) and after every failed candidate the
\* accumulators equal the actual numbers of queens of the working grid per
\* row, column and region; after a failed candidate the working grid and the
\* accumulators hold what they held just before the candidate was placed.
C19_QueensAccumulatorsExact ==
  (game = "queens" /\ pc = "running" /\ stack # <<>>) =>
    /\ Top.at = "entry" => QueensCountsExact
    /\ (Top.at = "loop" /\ Top.saved # NULL) =>
         /\ QueensCountsExact
         /\ QueensRestored(Top.saved)

\* C19 witness: a candidate has just failed in a region that held no queen
\* before it was placed; the region now has a key, with the count 0
C19_Witness ==
  /\ game = "queens"
  /\ pc = "running"
  /\ stack # <<>>
  /\ Top.at = "loop"
  /\ Top.saved # NULL
  /\ Top.col >= 1
  /\ solution[Top.row][Top.col - 1] = EMPTY
  /\ input.regions[Top.row][Top.col - 1] \in DOMAIN queensPerRegion
  /\ input.regions[Top.row][Top.col - 1] \notin DOMAIN Top.saved.queensPerRegion
  /\ queensPerRegion[input.regions[Top.row][Top.col - 1]] = 0

\* C20: the grid solveQueens returns differs from the input grid only in
\* cells that were EMPTY and are QUEEN now, none of them in a row that held
\* a pre-placed queen; pre-placed queens and CROSS cells keep their value.
C20_QueensFrame ==
  Returned("queens") =>
    \A r \in QIdx(input.size) : \A c \in QIdx(input.size) :
      /\ result[r][c] # input.grid[r][c] =>
           /\ input.grid[r][c] = EMPTY
           /\ result[r][c] = QUEEN
           /\ \A c2 \in QIdx(input.size) : input.grid[r][c2] # QUEEN
      /\ input.grid[r][c] \in {QUEEN, CROSS} => result[r][c] = input.grid[r][c]

\* C20 witness: a grid has been returned for a board that held a pre-placed
\* queen and a CROSS cell, with a queen added on a cell that was EMPTY
C20_Witness ==
  /\ Returned("queens")
  /\ \E r \in QIdx(input.size) : \E c \in QIdx(input.size) :
       input.grid[r][c] = QUEEN
  /\ \E r \in QIdx(input.size) : \E c \in QIdx(input.size) :
       input.grid[r][c] = CROSS
  /\ \E r \in QIdx(input.size) : \E c \in QIdx(input.size) :
       input.grid[r][c] = EMPTY /\ result[r][c] = QUEEN

\* the frame f of solveTango has left its propagation loop
TangoLoopExited(f) ==
  \/ f.at \in {"sun", "moon"}
  \/ f.at = "loop" /\ ~(f.changed /\ f.iterations < maxIterations)

\* an edge constraint has exactly one empty side in g
TangoEdgeRuleApplies(g, constraints) ==
  \E i \in 1 .. Len(constraints) : TangoOneSided(constraints[i], g)

\* a and b are cells of the grid holding the same symbol in g
TangoEqualKnown(g, a, b) ==
  /\ a[1] \in Idx /\ a[2] \in Idx /\ b[1] \in Idx /\ b[2] \in Idx
  /\ g[a[1]][a[2]] # EMPTY
  /\ g[a[1]][a[2]] = g[b[1]][b[2]]

\* an empty cell of g has two equal known cells before it, after it or around
\* it, in its row or in its column
TangoTripleRuleApplies(g) ==
  \E r \in Idx : \E c \in Idx :
    /\ g[r][c] = EMPTY
    /\ \/ TangoEqualKnown(g, <<r, c - 1>>, <<r, c - 2>>)
       \/ TangoEqualKnown(g, <<r, c + 1>>, <<r, c + 2>>)
       \/ TangoEqualKnown(g, <<r, c - 1>>, <<r, c + 1>>)
       \/ TangoEqualKnown(g, <<r - 1, c>>, <<r - 2, c>>)
       \/ TangoEqualKnown(g, <<r + 1, c>>, <<r + 2, c>>)
       \/ TangoEqualKnown(g, <<r - 1, c>>, <<r + 1, c>>)

\* a row or a column of g holds exactly half of its cells in one symbol and
\* still has an empty cell
TangoBalanceRuleApplies(g) ==
  \E i \in Idx : \E v \in {SUN, MOON} :
    \/ /\ Cardinality({ j \in Idx : g[i][j] = v }) * 2 = GRID_SIZE
       /\ \E j \in Idx : g[i][j] = EMPTY
    \/ /\ Cardinality({ j \in Idx : g[j][i] = v }) * 2 = GRID_SIZE
       /\ \E j \in Idx : g[j][i] = EMPTY

\* C21: whenever the propagation loop of a solveTango call exits, none of
\* the three forcing rules is applicable to the working grid.
C21_PropagationFixpoint ==
  (game = "tango" /\ pc = "running") =>
    \A i \in 1 .. Len(stack) :
      TangoLoopExited(stack[i]) =>
        /\ ~TangoEdgeRuleApplies(stack[i].solution, input.constraints)
        /\ ~TangoTripleRuleApplies(stack[i].solution)
        /\ ~TangoBalanceRuleApplies(stack[i].solution)

\* C21 witness: the loop of a nested call has exited after at least three
\* passes, on a grid that is not complete
C21_Witness ==
  /\ game = "tango"
  /\ pc = "running"
  /\ Len(stack) >= 2
  /\ Top.at = "loop"
  /\ ~Top.changed
  /\ Top.iterations >= 3
  /\ ~isSolved(Top.solution)

\* (row, col) is empty in g and no cell before it in row-major order is
TangoIsFirstEmpty(g, row, col) ==
  /\ g[row][col] = EMPTY
  /\ \A r \in Idx : \A c \in Idx :
       (r < row \/ (r = row /\ c < col)) => g[r][c] # EMPTY

\* h is g with the one cell (row, col) set to v
TangoOneCellSet(g, h, row, col, v) ==
  \A r \in Idx : \A c \in Idx :
    h[r][c] = (IF r = row /\ c = col THEN v ELSE g[r][c])

\* every call waiting for a branch guessed on a valid incomplete grid, at
\* its first empty cell, and handed the callee that grid with the one cell
\* set to SUN (first branch) or MOON (second branch)
TangoBranchesInOrder ==
  \A i \in 1 .. Len(stack) - 1 :
    /\ stack[i].at \in {"sun", "moon"}
    /\ ~isSolved(stack[i].solution)
    /\ isValidTango(stack[i].solution, input.constraints)
    /\ TangoIsFirstEmpty(stack[i].solution, stack[i].row, stack[i].col)
    /\ TangoOneCellSet(stack[i].solution, stack[i + 1].grid,
                       stack[i].row, stack[i].col,
                       IF stack[i].at = "sun" THEN SUN ELSE MOON)

\* one step of a call that has left its loop or got a branch's result back
TangoFallbackStep ==
  (game = "tango" /\ pc = "running" /\ stack # <<>>) =>
    \* incomplete and invalid: null, no guess
    /\ (/\ Top.at = "loop"
        /\ TangoLoopExited(Top)
        /\ ~isSolved(Top.solution)
        /\ ~isValidTango(Top.solution, input.constraints)) =>
         (stack' = Pop /\ ret' = <<NULL>>)
    \* incomplete and valid: the first branch, SUN
    /\ (/\ Top.at = "loop"
        /\ TangoLoopExited(Top)
        /\ ~isSolved(Top.solution)
        /\ isValidTango(Top.solution, input.constraints)) =>
         (/\ Len(stack') = Len(stack) + 1
          /\ stack'[Len(stack)].at = "sun")
    \* the SUN branch gave a grid: it is returned, MOON is not tried
    /\ (Top.at = "sun" /\ ret # <<>> /\ ret[1] # NULL) =>
         (stack' = Pop /\ ret' = ret)
    \* the SUN branch gave null: the second branch, MOON, on the same cell
    /\ (Top.at = "sun" /\ ret = <<NULL>>) =>
         (/\ Len(stack') = Len(stack) + 1
          /\ stack'[Len(stack)].at = "moon"
          /\ stack'[Len(stack)].row = Top.row
          /\ stack'[Len(stack)].col = Top.col)
    \* the MOON branch's result is returned, null included
    /\ (Top.at = "moon" /\ ret # <<>>) => (stack' = Pop /\ ret' = ret)
    \* a call waits for MOON only after SUN gave null
    /\ (Len(stack') > Len(stack) /\ stack'[Len(stack)].at = "moon") =>
         (Top.at = "sun" /\ ret = <<NULL>>)

\* C22: a call whose propagation leaves an incomplete invalid grid returns
\* null without guessing; otherwise it branches on the first empty cell in
\* row-major order, SUN before MOON, returns the SUN result when it is not
\* null without running MOON, and returns null when both branches do.
C22_TangoFallbackOrder ==
  /\ [](game = "tango" => TangoBranchesInOrder)
  /\ [][TangoFallbackStep]_vars

\* C22 witness: both branches of a call have returned null
C22_Witness ==
  /\ game = "tango"
  /\ pc = "running"
  /\ stack # <<>>
  /\ Top.at = "moon"
  /\ ret = <<NULL>>

\* the moves in the order up, down, left, right, as <<dr, dc>>
ZipMoveOrder == << <<-1, 0>>, <<1, 0>>, <<0, -1>>, <<0, 1>> >>

\* the first complete valid path that starts with p, in depth-first order
\* with the moves tried in ZipMoveOrder from move number k on; NULL if none
RECURSIVE ZipFirstPathFrom(_, _)
ZipFirstPathFrom(p, k) ==
  IF Len(p) = input.size * input.size
  THEN IF ZipLabelsAlong(p) = ZipWaypointNums(input.waypoints) THEN p ELSE NULL
  ELSE IF k > Len(ZipMoveOrder) THEN NULL
  ELSE LET n == <<p[Len(p)][1] + ZipMoveOrder[k][1],
                  p[Len(p)][2] + ZipMoveOrder[k][2]>>
           sub == IF /\ n \in ZipCells(input.size)
                     /\ ZipPositions(p, n) = {}
                     /\ ~ZipWallBetween(input.walls, p[Len(p)], n)
                  THEN ZipFirstPathFrom(Append(p, n), 1)
                  ELSE NULL
       IN  IF sub # NULL THEN sub ELSE ZipFirstPathFrom(p, k + 1)

\* the first complete valid path from the cell of the lowest label
ZipFirstPath ==
  ZipFirstPathFrom(<< input.waypoints[ZipWaypointNums(input.waypoints)[1]] >>, 1)

\* the board of the example: 3x3, 1 at (0,0), 2 at (2,2), no walls
ZipExampleBoard ==
  /\ input.size = 3
  /\ DOMAIN input.waypoints = {1, 2}
  /\ input.waypoints[1] = <<0, 0>>
  /\ input.waypoints[2] = <<2, 2>>
  /\ \A r \in ZIdx(3) : \A c \in ZIdx(3) :
       \A side \in {"top", "right", "bottom", "left"} : ~input.walls[r][c][side]

\* C23: the path solveZip returns starts at the cell of the lowest label and
\* is the first complete valid path in depth-first order with the moves
\* tried up, down, left, right; solving the same board again returns the
\* same path; on the 3x3 board with 1 at (0,0), 2 at (2,2) and no walls the
\* path has 9 cells, from (0,0) to (2,2).
C23_ZipDeterministic ==
  /\ Returned("zip") =>
       /\ result[1] = input.waypoints[ZipWaypointNums(input.waypoints)[1]]
       /\ result = ZipFirstPath
  /\ (Done("zip") /\ solves >= 2) => result = previous
  /\ (Done("zip") /\ ZipExampleBoard) =>
       /\ result # NULL
       /\ Len(result) = 9
       /\ result[1] = <<0, 0>>
       /\ result[9] = <<2, 2>>

\* C23 witness: the example board has been solved twice
C23_Witness ==
  /\ Returned("zip")
  /\ ZipExampleBoard
  /\ solves = 2
  /\ previous # NULL

\* visited marks exactly the cells of path, path holds no cell twice, and
\* its consecutive cells are neighbours with no wall between them
ZipSearchStateOk ==
  /\ \A cell \in ZipCells(input.size) :
       /\ visited[cell[1]][cell[2]] <=> ZipPositions(path, cell) # {}
       /\ Cardinality(ZipPositions(path, cell)) <= 1
  /\ \A i \in 1 .. Len(path) : path[i] \in ZipCells(input.size)
  /\ \A i \in 1 .. Len(path) - 1 :
       /\ ZipAdjacent(path[i], path[i + 1])
       /\ ~ZipWallBetween(input.walls, path[i], path[i + 1])

\* a call of dfs that returns false leaves path and visited as they were
\* when it was called
ZipFailureRestores ==
  (/\ game = "zip"
   /\ pc = "running"
   /\ stack # <<>>
   /\ Len(stack') = Len(stack) - 1
   /\ ret' = <<FALSE>>) =>
    /\ path' = Top.called.path
    /\ visited' = Top.called.visited

\* C24: during the search visited marks exactly the cells of path, path has
\* no cell twice and moves between neighbours without crossing a wall; every
\* failing return of dfs leaves path and visited as they were before the
\* call; when solveZip returns null path is empty and no cell is visited.
C24_ZipSearchState ==
  /\ []((game = "zip" /\ pc \in {"running", "done"}) => ZipSearchStateOk)
  /\ [][ZipFailureRestores]_vars
  /\ []((Done("zip") /\ result = NULL) =>
         /\ path = <<>>
         /\ \A cell \in ZipCells(input.size) : ~visited[cell[1]][cell[2]])

\* C24 witness: a nested call of dfs has just returned false after trying
\* its directions, on a board with a wall
C24_Witness ==
  /\ game = "zip"
  /\ pc = "running"
  /\ Len(stack) >= 3
  /\ Top.at = "wait"
  /\ ret = <<FALSE>>
  /\ Len(path) = Len(stack)
  /\ \E r \in ZIdx(input.size) : \E c \in ZIdx(input.size) :
       \E side \in {"top", "right", "bottom", "left"} : input.walls[r][c][side]

\* every cell that is non-empty in g holds the same symbol in h
TangoKeeps(g, h) ==
  \A r \in Idx : \A c \in Idx : g[r][c] # EMPTY => h[r][c] = g[r][c]

\* the grids of the calls in progress extend one another, from the input on
TangoGridsGrow ==
  /\ stack # <<>> => TangoKeeps(input.grid, stack[1].grid)
  /\ \A i \in 1 .. Len(stack) : TangoKeeps(stack[i].grid, stack[i].solution)
  /\ \A i \in 1 .. Len(stack) - 1 :
       TangoKeeps(stack[i].solution, stack[i + 1].grid)
  /\ (ret # <<>> /\ ret[1] # NULL) =>
       /\ TangoKeeps(input.grid, ret[1])
       /\ \A i \in 1 .. Len(stack) : TangoKeeps(stack[i].solution, ret[1])

\* a step of the solver leaves every non-empty cell of every working grid as
\* it is
TangoWritesOnlyEmpty ==
  (game = "tango" /\ pc = "running" /\ pc' = "running") =>
    \A i \in 1 .. Len(stack) :
      i <= Len(stack') => TangoKeeps(stack[i].solution, stack'[i].solution)

\* C25: no propagation rule and no guess writes a cell that is non-empty,
\* and no cell goes back to EMPTY; every cell that is non-empty in the input
\* holds the same symbol in any grid solveTango returns.
C25_TangoWritesMonotone ==
  /\ []((game = "tango" /\ pc = "running") => TangoGridsGrow)
  /\ [][TangoWritesOnlyEmpty]_vars
  /\ [](Returned("tango") => TangoKeeps(input.grid, result))

\* C25 witness: a grid has been returned, after a guess, for a board with
\* two given cells; the guessed cell and the given cells are in it
C25_Witness ==
  /\ Returned("tango")
  /\ solves = 1
  /\ Cardinality({ rc \in Idx \X Idx : input.grid[rc[1]][rc[2]] # EMPTY }) >= 2
  /\ input.grid[0][0] = EMPTY
  /\ result[0][0] = SUN
  /\ input.constraints = <<>>

\* C26: in every solveTango call the number of passes is at most the number
\* of empty cells of the grid at call entry plus one, so at most 37; the
\* loop exits because a pass made no change, never because of the cap.
C26_TangoPassCapNeverReached ==
  (game = "tango" /\ pc = "running") =>
    \A i \in 1 .. Len(stack) :
      /\ stack[i].iterations <=
           GRID_SIZE * GRID_SIZE - TangoFilled(stack[i].grid) + 1
      /\ stack[i].iterations <= GRID_SIZE * GRID_SIZE + 1
      /\ stack[i].iterations < maxIterations
      /\ TangoLoopExited(stack[i]) => ~stack[i].changed

\* C26 witness: the loop of the outermost call has exited, after three
\* passes at least, on a pass that made no change
C26_Witness ==
  /\ game = "tango"
  /\ pc = "running"
  /\ Len(stack) = 1
  /\ Top.at = "loop"
  /\ ~Top.changed
  /\ Top.iterations >= 3

\* ---------------------------------------------------------------------
\* Adding the solve button: init(), the polling timer and the observer

Games == {"sudoku", "queens", "tango", "zip"}

\* the content script has been injected, init() has not run yet
PageInit ==
  /\ game \in Games
  /\ page \in {PageLoaded(url, cellsThere) : url \in BOOLEAN, cellsThere \in BOOLEAN}
  /\ button = NULL
  /\ pc = "idle"
  /\ input = NULL
  /\ before = NULL
  /\ solution = NULL
  /\ stack = <<>>
  /\ ret = <<>>
  /\ queensPerRow = NULL
  /\ queensPerCol = NULL
  /\ queensPerRegion = NULL
  /\ visited = NULL
  /\ path = <<>>
  /\ result = NULL
  /\ solves = 0
  /\ previous = NULL
  /\ outcome = "none"

\* the button object after a call that took the page from pg to pg2: a new
\* one when a button was appended
ButtonAfterAdd(pg, pg2) ==
  IF pg2.buttons > pg.buttons THEN ButtonAdded(game) ELSE button

\* init(): return when the address is not the game's; otherwise
\* setTimeout(checkForGame, 500) and new MutationObserver(...).observe(body)
init ==
  /\ ~page.started
  /\ page' = IF page.onGamePage
             THEN [page EXCEPT !.started = TRUE, !.timer = TRUE,
                               !.observing = TRUE]
             ELSE [page EXCEPT !.started = TRUE]
  /\ UNCHANGED <<game, button, pc, input, before, solution, stack, ret,
                 queensPerRow, queensPerCol, queensPerRegion, visited, path,
                 result, solves, previous, outcome>>

\* the timer callback checkForGame: addSolveButton() when the cells are in the
\* document, setTimeout(checkForGame, 500) otherwise
checkForGame ==
  /\ page.timer
  /\ page.polls < MaxPolls
  /\ LET pg == [page EXCEPT !.timer = FALSE, !.polls = @ + 1]
     IN  IF pg.cells
         THEN page' = [addSolveButton(pg) EXCEPT !.pollAdded = TRUE]
         ELSE page' = [pg EXCEPT !.timer = TRUE]
  /\ button' = ButtonAfterAdd(page, page')
  /\ UNCHANGED <<game, pc, input, before, solution, stack, ret,
                 queensPerRow, queensPerCol, queensPerRegion, visited, path,
                 result, solves, previous, outcome>>

\* the MutationObserver callback: addSolveButton() when the cells are in the
\* document and no element has the button's id
MutationObserverCallback ==
  /\ page.queued
  /\ LET pg == [page EXCEPT !.queued = FALSE]
     IN  IF pg.cells /\ pg.buttons = 0
         THEN page' = [addSolveButton(pg) EXCEPT !.observerAdded = TRUE]
         ELSE page' = pg
  /\ button' = ButtonAfterAdd(page, page')
  /\ UNCHANGED <<game, pc, input, before, solution, stack, ret,
                 queensPerRow, queensPerCol, queensPerRegion, visited, path,
                 result, solves, previous, outcome>>

\* the page renders the board: the cells the selectors look for appear
PageRendersCells ==
  /\ ~page.cells
  /\ page' = [page EXCEPT !.cells = TRUE, !.queued = page.observing \/ @]
  /\ UNCHANGED <<game, button, pc, input, before, solution, stack, ret,
                 queensPerRow, queensPerCol, queensPerRegion, visited, path,
                 result, solves, previous, outcome>>

\* the page takes the board out of the document
PageRemovesCells ==
  /\ page.cells
  /\ page' = [page EXCEPT !.cells = FALSE, !.queued = page.observing \/ @]
  /\ UNCHANGED <<game, button, pc, input, before, solution, stack, ret,
                 queensPerRow, queensPerCol, queensPerRegion, visited, path,
                 result, solves, previous, outcome>>

\* the page takes a solve button out of document.body
PageRemovesButton ==
  /\ page.buttons > 0
  /\ page.removals < MaxRemovals
  /\ page' = [page EXCEPT !.buttons = @ - 1, !.removals = @ + 1,
                          !.queued = page.observing \/ @]
  /\ UNCHANGED <<game, button, pc, input, before, solution, stack, ret,
                 queensPerRow, queensPerCol, queensPerRegion, visited, path,
                 result, solves, previous, outcome>>

PageNext ==
  \/ init
  \/ checkForGame
  \/ MutationObserverCallback
  \/ PageRendersCells
  \/ PageRemovesCells
  \/ PageRemovesButton

SpecPage == PageInit /\ [][PageNext]_vars

\* C28: under every interleaving of the polling timer, the observer callback
\* and the page's own changes at most one solve button is in the document; a
\* call of addSolveButton while a button is in the document changes nothing;
\* and once the polling chain has called addSolveButton no checkForGame timer
\* is pending, then or later.
C28_SingleSolveButton ==
  /\ page.buttons <= 1
  /\ (page.buttons > 0 => addSolveButton(page) = page)
  /\ (page.pollAdded => ~page.timer)

\* the observer added the button first and the polling timer then called
\* addSolveButton with the button in the document: one button, no timer
C28_Witness ==
  /\ page.observerAdded
  /\ page.pollAdded
  /\ page.removals = 0
  /\ page.buttons = 1
  /\ ~page.timer

\* ---------------------------------------------------------------------
\* Solve-button lifecycle

\* what runs while the button is disabled: the rest of the click handler (the
\* solver, the resolution of applySolution) and the 2000 ms timer callback
HandlerProgress == button.disabled /\ Next

\* the event loop runs a started handler to its end, resolves the promise it
\* awaits and fires the timer it set
SpecLifecycle == Init /\ [][Next]_vars /\ WF_vars(HandlerProgress)

\* the solver is running, or the handler is awaiting applySolution
SolveInProgress ==
  \/ pc = "running"
  \/ pc = "done" /\ outcome = "applied" /\ button.text = "Solving..."

\* a step that starts a click handler: a solve is started, the page is parsed
\* again, or the parse failure is reported
HandlerStarts ==
  \/ solves' # solves
  \/ pc = "done" /\ pc' = "idle"
  \/ outcome # "unparsed" /\ outcome' = "unparsed"

\* the button is enabled and shows the label addSolveButton gave it
ButtonRestored == ~button.disabled /\ button.text = ButtonLabel(game)

\* C27: while the solver runs or applySolution is awaited the button is
\* disabled, no click handler starts from a disabled button, an enabled button
\* always shows its original label, and a disabled button is eventually
\* enabled again with its original label on every path.
C27_ButtonLifecycle ==
  /\ [](SolveInProgress => button.disabled)
  /\ [](~button.disabled => button.text = ButtonLabel(game))
  /\ [][HandlerStarts => ~button.disabled]_vars
  /\ (button.disabled ~> ButtonRestored)

\* the success path: applySolution has resolved, the button shows "Solved!",
\* is still disabled and the 2000 ms timer is pending
C27_Witness ==
  /\ outcome = "applied"
  /\ button.disabled
  /\ button.timer
  /\ button.text = "Solved!"

====
